---- MODULE Spec2Model ----
(***************************************************************************)
(* A model of the time-lock container subsystem of time-locker:            *)
(*   - crypto.rs        round clock, timelock cipher, beacon failover      *)
(*   - tlock_format.rs  the 24-byte container header                       *)
(*   - cli.rs / commands.rs  the unlock paths of a container               *)
(* u64 and u32 values are kept at their width as little-endian sequences   *)
(* of 16-bit limbs, because TLC's integers are 32 bits wide.               *)
(***************************************************************************)
EXTENDS Integers, Sequences, FiniteSets, TLC

VARIABLES
    overflow_checks,   \* build profile: TRUE = arithmetic overflow panics, FALSE = it wraps
    rc,                \* the round-clock call in progress (SpecClock)
    hd,                \* the header read in progress (SpecHeader)
    now,               \* Utc::now().timestamp() as u64, the local clock
    beacon,            \* the latest round the drand network has published
    ct,                \* the container on disk: its metadata and what sealed its payload
    un,                \* the unlock in progress (cmd_unlock or unlock_tlock_file)
    info,              \* the last result of get_tlock_info
    disk,              \* the files of the working directory and the vault (SpecContainer)
    op,                \* the container operation in progress (SpecContainer)
    pt,                \* a ProgressTracker and the last percentage() read from it
    pl,                \* a build_payload call racing with the tracker's writers (SpecPayload)
    ox                 \* the operation registry and the threads using it (SpecOperation)

cipherVars == <<now, beacon, ct, un, info>>
containerVars == <<disk, op>>
progressVars == <<pt, pl, ox>>
vars == <<overflow_checks, rc, hd, cipherVars, containerVars, progressVars>>

\* what the actions of each specification leave alone
ClockFrame == <<overflow_checks, hd, cipherVars, containerVars, progressVars>>
HeaderFrame == <<overflow_checks, rc, cipherVars, containerVars, progressVars>>
CipherFrame == <<overflow_checks, rc, hd, containerVars, progressVars>>
ContainerFrame == <<overflow_checks, rc, hd, cipherVars, progressVars>>
ProgressFrame == <<overflow_checks, rc, hd, cipherVars, containerVars, pl, ox>>
PayloadFrame == <<overflow_checks, rc, hd, cipherVars, containerVars, pt, ox>>
OperationFrame == <<overflow_checks, rc, hd, cipherVars, containerVars, pt, pl>>

----------------------------------------------------------------------------
(* Fixed-width unsigned arithmetic on little-endian limb sequences.        *)

\* 16-bit limbs: a u64 is four of them, a u32 two
Base == 256 * 256
U64Limbs == 64 \div 16
U32Limbs == 32 \div 16

RECURSIVE LimbsOf(_, _)
\* the len-limb representation of a small natural n
LimbsOf(n, len) ==
    IF len = 0 THEN <<>> ELSE <<n % Base>> \o LimbsOf(n \div Base, len - 1)

U64(n) == LimbsOf(n, U64Limbs)
U64_MAX == <<Base - 1, Base - 1, Base - 1, Base - 1>>

RECURSIVE AddC(_, _, _)
\* a + b + c with the carry kept as one more limb (Len(a) = Len(b))
AddC(a, b, c) ==
    IF a = <<>> THEN <<c>>
    ELSE LET s == Head(a) + Head(b) + c
         IN  <<s % Base>> \o AddC(Tail(a), Tail(b), s \div Base)

RECURSIVE MulC(_, _, _)
\* a * k + c for a small k, the carry kept as one more limb
MulC(a, k, c) ==
    IF a = <<>> THEN <<c>>
    ELSE LET p == Head(a) * k + c
         IN  <<p % Base>> \o MulC(Tail(a), k, p \div Base)

RECURSIVE SubB(_, _, _)
\* a - b - borrow modulo Base^Len(a)
SubB(a, b, borrow) ==
    IF a = <<>> THEN <<>>
    ELSE LET d == Head(a) - Head(b) - borrow
         IN  IF d < 0 THEN <<d + Base>> \o SubB(Tail(a), Tail(b), 1)
                      ELSE <<d>> \o SubB(Tail(a), Tail(b), 0)

RECURSIVE DivRem(_, _)
\* quotient and remainder of a by a small k (long division from the top limb)
DivRem(a, k) ==
    IF a = <<>> THEN [q |-> <<>>, r |-> 0]
    ELSE LET hi  == DivRem(Tail(a), k)
             cur == hi.r * Base + Head(a)
         IN  [q |-> <<cur \div k>> \o hi.q, r |-> cur % k]

RECURSIVE Le(_, _)
\* a <= b (Len(a) = Len(b))
Le(a, b) ==
    IF a = <<>> THEN TRUE
    ELSE IF a[Len(a)] # b[Len(b)] THEN a[Len(a)] < b[Len(b)]
    ELSE Le(SubSeq(a, 1, Len(a) - 1), SubSeq(b, 1, Len(b) - 1))

Lt(a, b) == Le(a, b) /\ a # b

Low(a, len) == SubSeq(a, 1, len)
Carry(a) == a[Len(a)]
Widen(a) == a \o <<0>>

\* Rust's u64 `+`, `*` (by a small constant), `-` and `/`: the wrapped value
\* and whether the mathematical result overflowed.
U64Add(a, b) == LET s == AddC(a, b, 0) IN [v |-> Low(s, U64Limbs), of |-> Carry(s) # 0]
U64Mul(a, k) == LET p == MulC(a, k, 0) IN [v |-> Low(p, U64Limbs), of |-> Carry(p) # 0]
U64Sub(a, b) == SubB(a, b, 0)
U64Div(a, k) == DivRem(a, k).q

\* the outcome of a call that panicked (no u64 has one limb)
Panic == <<"panic">>

\* the parts of the state a specification does not exercise stay idle
NoCall == [fn |-> "none"]
NoHeader == [fn |-> "none"]
NoContainer == [kind |-> "none"]
NoUnlock == [pc |-> "off"]
NoInfo == [fn |-> "none"]
NoDisk == {}
NoOp == [fn |-> "none"]
NoTracker == [made |-> FALSE]
NoPayload == [made |-> FALSE]
NoOperations == [made |-> FALSE]

ClockIdle == rc = NoCall
HeaderIdle == hd = NoHeader
CipherIdle ==
    /\ now = LimbsOf(0, U64Limbs)
    /\ beacon = LimbsOf(0, U64Limbs)
    /\ ct = NoContainer
    /\ un = NoUnlock
    /\ info = NoInfo
ContainerIdle ==
    /\ disk = NoDisk
    /\ op = NoOp
PayloadIdle == pl = NoPayload
OperationIdle == ox = NoOperations
ProgressIdle == pt = NoTracker /\ PayloadIdle /\ OperationIdle

----------------------------------------------------------------------------
(* RoundClock: crypto.rs                                                   *)

QUICKNET_GENESIS_TIME == 1692803367
QUICKNET_PERIOD == 3

Genesis == U64(QUICKNET_GENESIS_TIME)

timestamp_to_round_no_offset(unix_timestamp) ==
    IF Le(unix_timestamp, Genesis) THEN U64(1)
    ELSE U64Div(U64Sub(unix_timestamp, Genesis), QUICKNET_PERIOD)

timestamp_to_round(unix_timestamp) ==
    IF Le(unix_timestamp, Genesis) THEN U64(1)
    ELSE LET elapsed == U64Sub(unix_timestamp, Genesis)
         IN  U64Add(U64Div(elapsed, QUICKNET_PERIOD), U64(1)).v

round_to_timestamp_zero_based(round) ==
    LET m == U64Mul(round, QUICKNET_PERIOD)
        s == U64Add(Genesis, m.v)
    IN  IF (m.of \/ s.of) /\ overflow_checks THEN Panic ELSE s.v

\* `(round - 1) * QUICKNET_PERIOD` and the addition overflow u64 for large
\* rounds: a panic with overflow checks, a wrapped value without.
round_to_timestamp(round) ==
    IF Le(round, U64(1)) THEN Genesis
    ELSE LET m == U64Mul(U64Sub(round, U64(1)), QUICKNET_PERIOD)
             s == U64Add(Genesis, m.v)
         IN  IF (m.of \/ s.of) /\ overflow_checks THEN Panic ELSE s.v

\* A DateTime<Utc> at or after the Unix epoch: whole seconds and nanoseconds.
DateTime(secs, nanos) == [secs |-> secs, nanos |-> nanos]

datetime_to_round_no_margin(datetime) == timestamp_to_round(datetime.secs)

datetime_to_round(datetime) ==
    LET timestamp == datetime.secs
    IN  U64Add(timestamp_to_round(timestamp), U64(1)).v

----------------------------------------------------------------------------
(* SpecClock: the round-clock functions applied to bounded inputs.         *)

MaxOffset == 9
MaxRound == 6

\* the largest round whose publication timestamp fits u64
MaxSafeRound == U64Add(U64Div(U64Sub(U64_MAX, Genesis), QUICKNET_PERIOD), U64(1)).v

Offsets == 0 .. MaxOffset

TimestampInputs ==
    {U64(0), U64(1), U64(QUICKNET_GENESIS_TIME - 1)}
    \cup {U64(QUICKNET_GENESIS_TIME + d) : d \in Offsets}
    \cup {U64Sub(U64_MAX, U64(d)) : d \in 0 .. 3}

RoundInputs ==
    {U64(r) : r \in 0 .. MaxRound}
    \cup {U64Sub(MaxSafeRound, U64(1)), MaxSafeRound, U64Add(MaxSafeRound, U64(1)).v}
    \cup {U64Add(U64Div(U64_MAX, QUICKNET_PERIOD), U64(d)).v : d \in 1 .. 3}
    \cup {U64Sub(U64_MAX, U64(1)), U64_MAX}

\* instants before genesis, around it, and 2^32 seconds after it
InstantInputs ==
    {DateTime(s, n) :
        s \in {U64(QUICKNET_GENESIS_TIME - 10), U64(QUICKNET_GENESIS_TIME - 1)}
              \cup {U64(QUICKNET_GENESIS_TIME + d) : d \in Offsets}
              \cup {U64Add(U64(QUICKNET_GENESIS_TIME + d), <<0, 0, 1, 0>>).v : d \in 0 .. 2},
        n \in {0, 1, 999999999}}

ClockInit ==
    /\ overflow_checks \in BOOLEAN
    /\ rc = NoCall
    /\ HeaderIdle
    /\ CipherIdle
    /\ ContainerIdle
    /\ ProgressIdle

CallTimestampToRound ==
    /\ rc = NoCall
    /\ \E t1 \in TimestampInputs, t2 \in TimestampInputs :
          rc' = [fn |-> "timestamp_to_round", t1 |-> t1, t2 |-> t2,
                 r1 |-> timestamp_to_round(t1), r2 |-> timestamp_to_round(t2)]
    /\ UNCHANGED ClockFrame

CallRoundToTimestamp ==
    /\ rc = NoCall
    /\ \E r \in RoundInputs :
          LET ts == round_to_timestamp(r)
          IN  rc' = [fn |-> "round_to_timestamp", round |-> r, ts |-> ts,
                     back |-> IF ts = Panic THEN Panic ELSE timestamp_to_round(ts)]
    /\ UNCHANGED ClockFrame

CallDatetimeToRound ==
    /\ rc = NoCall
    /\ \E u \in InstantInputs :
          LET round == datetime_to_round(u)
          IN  rc' = [fn |-> "datetime_to_round", u |-> u, round |-> round,
                     published |-> round_to_timestamp(round)]
    /\ UNCHANGED ClockFrame

\* the caller takes the result; the next call starts from a clean slate
ClockReturn ==
    /\ rc # NoCall
    /\ rc' = NoCall
    /\ UNCHANGED ClockFrame

ClockNext ==
    \/ CallTimestampToRound
    \/ CallRoundToTimestamp
    \/ CallDatetimeToRound
    \/ ClockReturn

SpecClock == ClockInit /\ [][ClockNext]_vars

----------------------------------------------------------------------------
(* Claims about the round clock, checked under SpecClock.                  *)

\* mathematical (non-wrapping) arithmetic on u64 values, five limbs wide
Wide(a) == Widen(a)
WideAdd(a, b) == Low(AddC(a, b, 0), U64Limbs + 1)
WideMul(a, k) == Low(MulC(a, k, 0), U64Limbs + 1)
WideNat(n) == LimbsOf(n, U64Limbs + 1)

\* genesis + (round - 1) * period, without wrapping
PublicationTime(round) ==
    WideAdd(Wide(Genesis), WideMul(Wide(U64Sub(round, U64(1))), QUICKNET_PERIOD))

\* C4: for every unlock instant u at or after genesis, the publication time of
\* the target round datetime_to_round(u) is at or after u and at most two
\* round periods later than u.
C4_TargetRoundWithinTwoPeriods ==
    (rc.fn = "datetime_to_round" /\ Le(Genesis, rc.u.secs)) =>
        /\ rc.published # Panic
        /\ \/ Lt(rc.u.secs, rc.published)
           \/ (rc.u.secs = rc.published /\ rc.u.nanos = 0)
        /\ Le(Wide(rc.published),
              WideAdd(Wide(rc.u.secs), WideNat(2 * QUICKNET_PERIOD)))

C4_Witness ==
    /\ rc.fn = "datetime_to_round"
    /\ rc.u = DateTime(U64(QUICKNET_GENESIS_TIME + 4), 999999999)
    /\ rc.round = U64(3)
    /\ rc.published = U64(QUICKNET_GENESIS_TIME + 6)

\* C5 as stated: for every u64 round r >= 1,
\* timestamp_to_round(round_to_timestamp(r)) = r.
C5_RoundTripEveryU64 ==
    (rc.fn = "round_to_timestamp" /\ Le(U64(1), rc.round)) => rc.back = rc.round

\* C5 amended: the round trip holds for every round r >= 1 whose publication
\* timestamp genesis + (r - 1) * period fits in u64.
C5_RoundTripWhileTimestampFits ==
    (/\ rc.fn = "round_to_timestamp"
     /\ Le(U64(1), rc.round)
     /\ Le(PublicationTime(rc.round), Wide(U64_MAX))) => rc.back = rc.round

C5_Witness ==
    /\ rc.fn = "round_to_timestamp"
    /\ rc.round = MaxSafeRound
    /\ rc.ts = U64_MAX
    /\ rc.back = MaxSafeRound

\* C6: timestamp_to_round(t) is 1 for t <= genesis and
\* floor((t - genesis) / period) + 1 for t > genesis; rounds are 1-indexed and
\* non-decreasing in t; genesis maps to 1 and genesis + period to 2.
C6_TimestampToRoundFormula ==
    rc.fn = "timestamp_to_round" =>
        /\ Le(rc.t1, Genesis) => rc.r1 = U64(1)
        /\ Lt(Genesis, rc.t1) =>
              \* genesis + (r-1)*period <= t < genesis + r*period
              /\ Le(U64(1), rc.r1)
              /\ Le(PublicationTime(rc.r1), Wide(rc.t1))
              /\ Lt(Wide(rc.t1),
                    WideAdd(PublicationTime(rc.r1), WideNat(QUICKNET_PERIOD)))
        /\ Le(rc.t1, rc.t2) => Le(rc.r1, rc.r2)
        /\ rc.t1 = U64(QUICKNET_GENESIS_TIME) => rc.r1 = U64(1)
        /\ rc.t1 = U64(QUICKNET_GENESIS_TIME + QUICKNET_PERIOD) => rc.r1 = U64(2)

C6_Witness ==
    /\ rc.fn = "timestamp_to_round"
    /\ rc.t1 = U64(QUICKNET_GENESIS_TIME + QUICKNET_PERIOD) /\ rc.r1 = U64(2)
    /\ rc.t2 = U64_MAX /\ rc.r2 = MaxSafeRound

----------------------------------------------------------------------------
(* Container header: tlock_format.rs                                       *)

\* b"TLOCK01"
TLOCK_MAGIC == <<84, 76, 79, 67, 75, 48, 49>>
TLOCK_VERSION == 1
HEADER_SIZE == 24
MAX_METADATA_SIZE == 1024 * 1024

U32(n) == LimbsOf(n, U32Limbs)

u32_from_be_bytes(b) == <<b[4] + 256 * b[3], b[2] + 256 * b[1]>>

\* u32::from_le_bytes: b[1] is the least significant byte
u32_from_le_bytes(b) == <<b[1] + 256 * b[2], b[3] + 256 * b[4]>>

ParseError(msg) == [ok |-> FALSE, err |-> "Parse", msg |-> msg]

\* `reader` is the sequence of bytes the reader still holds. The result also
\* says how many bytes were consumed.
read_and_validate_header(reader) ==
    IF Len(reader) < HEADER_SIZE
    THEN ParseError("Failed to read header")
    ELSE LET header == SubSeq(reader, 1, HEADER_SIZE)
             version == header[8]
             metadata_len == u32_from_le_bytes(SubSeq(header, 9, 12))
         IN  IF SubSeq(header, 1, 7) # TLOCK_MAGIC
             THEN ParseError("bad magic bytes")
             ELSE IF version > TLOCK_VERSION
             THEN ParseError("Unsupported .7z.tlock version")
             ELSE IF ~Le(metadata_len, U32(MAX_METADATA_SIZE))
             THEN ParseError("Metadata length exceeds maximum")
             ELSE [ok |-> TRUE, version |-> version, metadata_len |-> metadata_len]

----------------------------------------------------------------------------
(* SpecHeader: read_and_validate_header applied to bounded header bytes.   *)

MaxVersion == 3

\* the magic token, and the token with one byte altered
MagicInputs ==
    {TLOCK_MAGIC} \cup {[TLOCK_MAGIC EXCEPT ![i] = (@ + 1) % 256] : i \in 1 .. 7}

VersionInputs == (0 .. MaxVersion) \cup {255}

\* little-endian length bytes on both sides of 1 MiB = 00 00 10 00
LengthInputs ==
    {<<b0, b1, b2, b3>> : b0 \in {0, 1}, b1 \in {0, 1},
                          b2 \in {0, 15, 16, 17}, b3 \in {0, 1, 255}}

ReservedInputs ==
    {[i \in 1 .. 12 |-> 0], [i \in 1 .. 12 |-> 255],
     [i \in 1 .. 12 |-> IF i = 12 THEN 1 ELSE 0]}

HeaderInit ==
    /\ overflow_checks \in BOOLEAN
    /\ ClockIdle
    /\ hd = NoHeader
    /\ CipherIdle
    /\ ContainerIdle
    /\ ProgressIdle

CallReadAndValidateHeader ==
    /\ hd = NoHeader
    /\ \E m \in MagicInputs, v \in VersionInputs, l \in LengthInputs,
          z \in ReservedInputs :
          LET header == m \o <<v>> \o l \o z
          IN  hd' = [fn |-> "read_and_validate_header", header |-> header,
                     res |-> read_and_validate_header(header)]
    /\ UNCHANGED HeaderFrame

\* a reader that ends before the header does
CallReadTruncatedHeader ==
    /\ hd = NoHeader
    /\ \E n \in {0, 7, 8, HEADER_SIZE - 1} :
          LET header == SubSeq(TLOCK_MAGIC \o <<TLOCK_VERSION>>
                               \o [i \in 1 .. 16 |-> 0], 1, n)
          IN  hd' = [fn |-> "read_and_validate_header", header |-> header,
                     res |-> read_and_validate_header(header)]
    /\ UNCHANGED HeaderFrame

HeaderReturn ==
    /\ hd # NoHeader
    /\ hd' = NoHeader
    /\ UNCHANGED HeaderFrame

HeaderNext ==
    \/ CallReadAndValidateHeader
    \/ CallReadTruncatedHeader
    \/ HeaderReturn

SpecHeader == HeaderInit /\ [][HeaderNext]_vars

\* C10: a 24-byte header is accepted if and only if its first 7 bytes are the
\* magic token, its version byte is at most 1 and its little-endian u32
\* metadata length is at most 1 MiB (byte 11 zero, and byte 10 below 0x10 or
\* the length exactly 00 00 10 00); the reserved bytes 12..23 play no part, and
\* every rejection is a Parse error.
C10_HeaderAcceptedIff ==
    (hd.fn = "read_and_validate_header" /\ Len(hd.header) = 24) =>
        LET h == hd.header
        IN  /\ hd.res.ok <=>
                 /\ \A i \in 1 .. 7 : h[i] = TLOCK_MAGIC[i]
                 /\ h[8] <= 1
                 /\ h[12] = 0
                 /\ h[11] < 16 \/ (h[11] = 16 /\ h[10] = 0 /\ h[9] = 0)
            /\ ~hd.res.ok => hd.res.err = "Parse"

\* a header with non-zero reserved bytes, version 0 and length exactly 1 MiB
\* is accepted
C10_Witness ==
    /\ hd.fn = "read_and_validate_header"
    /\ Len(hd.header) = 24
    /\ hd.header[8] = 0
    /\ SubSeq(hd.header, 9, 12) = <<0, 0, 16, 0>>
    /\ hd.header[24] = 255
    /\ hd.res.ok
    /\ hd.res.metadata_len = U32(MAX_METADATA_SIZE)

----------------------------------------------------------------------------
(* TimelockCipher: crypto.rs                                               *)

DRAND_ENDPOINTS == <<"https://api.drand.sh", "https://drand.cloudflare.com">>

Ok(v) == [ok |-> TRUE, v |-> v]
\* the call did not return: the thread panicked
Panicked == [ok |-> FALSE, err |-> "panic", msg |-> "arithmetic overflow"]
Err(kind, msg) == [ok |-> FALSE, err |-> kind, msg |-> msg]

\* Base64 text is a sequence of alphabet indices 0..63; B64Pad is '=' and
\* anything above it a character outside the alphabet.
B64Pad == 64

RECURSIVE base64_encode(_)
base64_encode(b) ==
    IF b = <<>> THEN <<>>
    ELSE IF Len(b) = 1
    THEN <<b[1] \div 4, (b[1] % 4) * 16, B64Pad, B64Pad>>
    ELSE IF Len(b) = 2
    THEN <<b[1] \div 4, (b[1] % 4) * 16 + b[2] \div 16, (b[2] % 16) * 4, B64Pad>>
    ELSE <<b[1] \div 4, (b[1] % 4) * 16 + b[2] \div 16,
           (b[2] % 16) * 4 + b[3] \div 64, b[3] % 64>>
         \o base64_encode(SubSeq(b, 4, Len(b)))

\* one group of four characters; `last` allows canonical padding
B64Quad(q, last) ==
    IF \A i \in 1 .. 4 : q[i] < B64Pad
    THEN Ok(<<q[1] * 4 + q[2] \div 16, (q[2] % 16) * 16 + q[3] \div 4,
              (q[3] % 4) * 64 + q[4]>>)
    ELSE IF last /\ q[1] < B64Pad /\ q[2] < B64Pad /\ q[3] < B64Pad /\ q[4] = B64Pad
              /\ q[3] % 4 = 0
    THEN Ok(<<q[1] * 4 + q[2] \div 16, (q[2] % 16) * 16 + q[3] \div 4>>)
    ELSE IF last /\ q[1] < B64Pad /\ q[2] < B64Pad /\ q[3] = B64Pad /\ q[4] = B64Pad
              /\ q[2] % 16 = 0
    THEN Ok(<<q[1] * 4 + q[2] \div 16>>)
    ELSE Err("Decryption", "Invalid base64")

RECURSIVE base64_decode(_)
base64_decode(s) ==
    IF s = <<>> THEN Ok(<<>>)
    ELSE IF Len(s) < 4 THEN Err("Decryption", "Invalid base64")
    ELSE LET q == B64Quad(SubSeq(s, 1, 4), Len(s) = 4)
             rest == base64_decode(SubSeq(s, 5, Len(s)))
         IN  IF q.ok /\ rest.ok THEN Ok(q.v \o rest.v)
             ELSE Err("Decryption", "Invalid base64")

u64_to_le_bytes(x) ==
    <<x[1] % 256, x[1] \div 256, x[2] % 256, x[2] \div 256,
      x[3] % 256, x[3] \div 256, x[4] % 256, x[4] \div 256>>

\* u64::to_be_bytes: the most significant byte first
u64_to_be_bytes(x) ==
    <<x[4] \div 256, x[4] % 256, x[3] \div 256, x[3] % 256,
      x[2] \div 256, x[2] % 256, x[1] \div 256, x[1] % 256>>

u64_from_le_bytes(b) ==
    <<b[1] + 256 * b[2], b[3] + 256 * b[4], b[5] + 256 * b[6], b[7] + 256 * b[8]>>

\* u64::from_be_bytes
u64_from_be_bytes(b) ==
    <<b[8] + 256 * b[7], b[6] + 256 * b[5], b[4] + 256 * b[3], b[2] + 256 * b[1]>>

\* The BLS signature the beacon publishes for a round. Only the beacon
\* produces one (BeaconGet).
Signature(round) == [signed_round |-> round]

\* tlock_age::encrypt, symbolically: an age header naming the round the
\* identity-based encryption is keyed to, then the body. Only tlock_decrypt
\* reads the body, and only with that round's signature.
AgeTag == <<97, 103, 101>>
tlock_encrypt(plain, round) == AgeTag \o u64_to_be_bytes(round) \o plain

\* tlock_age::decrypt
tlock_decrypt(ciphertext, signature) ==
    IF Len(ciphertext) < 11 \/ SubSeq(ciphertext, 1, 3) # AgeTag
    THEN Err("Decryption", "Tlock decryption failed")
    ELSE IF signature # Signature(u64_from_be_bytes(SubSeq(ciphertext, 4, 11)))
    THEN Err("Decryption", "Tlock decryption failed")
    ELSE Ok(SubSeq(ciphertext, 12, Len(ciphertext)))

\* String::from_utf8, for the bytes the model uses: ASCII and 0xFF (which
\* no UTF-8 text contains)
string_from_utf8(bytes) ==
    IF \A i \in 1 .. Len(bytes) : bytes[i] < 128
    THEN Ok(bytes)
    ELSE Err("Decryption", "Invalid UTF-8 in decrypted data")

encrypt_with_tlock_le_prefix(password, unlock_time) ==
    LET round == datetime_to_round(unlock_time)
    IN  base64_encode(u64_to_le_bytes(round) \o tlock_encrypt(password, round))

encrypt_with_tlock(password, unlock_time) ==
    LET round  == datetime_to_round(unlock_time)
        output == tlock_encrypt(password, round)
        result == u64_to_be_bytes(round) \o output
    IN  base64_encode(result)

is_round_available_inverted(round, at) ==
    LET round_time == round_to_timestamp(round)
    IN  Le(at, round_time)

\* `at` is the value Utc::now() returns. The callers deal with a panic of
\* round_to_timestamp before they use the result.
is_round_available(round, at) ==
    LET round_time == round_to_timestamp(round)
    IN  Le(round_time, at)

decrypt_prelude_unchecked(encrypted, unlock_time, at) ==
    LET decoded == base64_decode(encrypted)
    IN  IF ~decoded.ok THEN [next |-> "return", result |-> decoded]
        ELSE IF Len(decoded.v) < 9
        THEN [next |-> "return",
              result |-> Err("Decryption", "Invalid encrypted data: too short")]
        ELSE [next |-> "fetch",
              round |-> u64_from_be_bytes(SubSeq(decoded.v, 1, 8)),
              ciphertext |-> SubSeq(decoded.v, 9, Len(decoded.v)),
              mismatch |-> FALSE]

decrypt_prelude_short_slice(encrypted, unlock_time, at) ==
    LET p == decrypt_prelude_unchecked(encrypted, unlock_time, at)
    IN  IF p.next # "fetch" THEN p
        ELSE IF round_to_timestamp(p.round) = Panic
        THEN [next |-> "panic", round |-> p.round]
        ELSE IF ~Le(round_to_timestamp(p.round), at)
        THEN [next |-> "return", round |-> p.round, result |-> Err("TimeLockActive", "")]
        ELSE [p EXCEPT !.ciphertext = Tail(@)]

\* decrypt_with_tlock up to the first network call: decode, parse the round,
\* compare it with the expected round (a warning only), check availability.
decrypt_prelude(encrypted, unlock_time, at) ==
    LET decoded == base64_decode(encrypted)
    IN  IF ~decoded.ok THEN [next |-> "return", result |-> decoded]
        ELSE IF Len(decoded.v) < 9
        THEN [next |-> "return",
              result |-> Err("Decryption", "Invalid encrypted data: too short")]
        ELSE LET round == u64_from_be_bytes(SubSeq(decoded.v, 1, 8))
                 ciphertext == SubSeq(decoded.v, 9, Len(decoded.v))
                 expected_round == datetime_to_round(unlock_time)
             IN  IF round_to_timestamp(round) = Panic
                 THEN [next |-> "panic", round |-> round]
                 ELSE IF ~is_round_available(round, at)
                 THEN [next |-> "return", round |-> round,
                       result |-> Err("TimeLockActive", "")]
                 ELSE [next |-> "fetch", round |-> round, ciphertext |-> ciphertext,
                       mismatch |-> (round # expected_round)]

\* what one endpoint can answer for `round`: HttpClient::new fails, client.get
\* fails, or the beacon of a published round comes back
EndpointOutcomes(round) ==
    {"client_err", "lookup_err"} \cup (IF Le(round, beacon) THEN {"ok"} ELSE {})

fetch_step_no_failover(i, outcome, round) ==
    IF outcome = "ok"
    THEN [next |-> "return", result |-> Ok(Signature(round))]
    ELSE IF outcome = "lookup_err" /\ i < Len(DRAND_ENDPOINTS)
    THEN [next |-> "continue", i |-> i + 1]
    ELSE [next |-> "return",
          result |-> Err("Decryption", "Failed to fetch drand signature from all endpoints")]

\* one iteration of fetch_drand_signature's loop, at endpoint number i
fetch_step(i, outcome, round) ==
    IF outcome = "ok"
    THEN [next |-> "return", result |-> Ok(Signature(round))]
    ELSE IF i < Len(DRAND_ENDPOINTS)
    THEN [next |-> "continue", i |-> i + 1]
    ELSE [next |-> "return",
          result |-> Err("Decryption", "Failed to fetch drand signature from all endpoints")]

\* decrypt_with_tlock after the signature is in hand
decrypt_finish(ciphertext, signature) ==
    LET output == tlock_decrypt(ciphertext, signature)
    IN  IF ~output.ok THEN output ELSE string_from_utf8(output.v)

get_tlock_info(encrypted, at) ==
    LET decoded == base64_decode(encrypted)
    IN  IF ~decoded.ok THEN decoded
        ELSE IF Len(decoded.v) < 8 THEN Err("Decryption", "Invalid encrypted data")
        ELSE LET round == u64_from_be_bytes(SubSeq(decoded.v, 1, 8))
                 unlock_time == round_to_timestamp(round)
             IN  IF unlock_time = Panic THEN Panicked
                 ELSE Ok([round |-> round, unlock_time |-> unlock_time,
                          available |-> is_round_available(round, at)])

----------------------------------------------------------------------------
(* Spec: locking a container and the two unlock paths of a container,      *)
(* cmd_unlock (cli.rs) and unlock_tlock_file (commands.rs), with the local *)
(* clock and the beacon network moving on their own.                       *)

MaxTime == 4
MaxBeacon == 3
MaxLockOffset == 2

Passwords == {<<97>>, <<98, 99>>}

LockInstants ==
    {DateTime(U64(QUICKNET_GENESIS_TIME + d), n) :
        d \in 1 .. MaxLockOffset, n \in {0, 500000000}}

\* TlockMetadata::is_unlockable, `Utc::now() >= self.unlocks`: the clock's
\* nanoseconds, which the model does not keep, decide within the same second
IsUnlockableOutcomes(unlocks, at) ==
    IF Lt(unlocks.secs, at) THEN {TRUE}
    ELSE IF unlocks.secs = at THEN (IF unlocks.nanos = 0 THEN {TRUE} ELSE {TRUE, FALSE})
    ELSE {FALSE}

\* cmd_lock / lock_item: the metadata and the payload of a new container
LockedContainer(password, unlock_datetime) ==
    [kind |-> "locked",
     unlocks |-> unlock_datetime,
     has_key |-> TRUE,
     encrypted_key |-> encrypt_with_tlock(password, unlock_datetime),
     sealed_with |-> password,
     locked_for |-> unlock_datetime]

\* Container files that did not come out of a lock unchanged: the metadata is
\* not encrypted, so anyone can rewrite it.
ForgedFrom(c, how) ==
    LET round == datetime_to_round(c.locked_for)
        ciphertext == tlock_encrypt(c.sealed_with, round)
        Rekeyed(bytes) == [c EXCEPT !.kind = "forged", !.encrypted_key = base64_encode(bytes)]
    IN  CASE how = "unlocks_in_the_past" ->
                [c EXCEPT !.kind = "forged",
                          !.unlocks = DateTime(U64(QUICKNET_GENESIS_TIME - 10), 0)]
          [] how = "no_key" ->
                [c EXCEPT !.kind = "forged", !.has_key = FALSE, !.encrypted_key = <<>>]
          [] how = "bad_base64" ->
                [c EXCEPT !.kind = "forged", !.encrypted_key = <<B64Pad + 1>> \o Tail(@)]
          [] how = "round_only" -> Rekeyed(u64_to_be_bytes(round))
          [] how = "prefix_round_1" -> Rekeyed(u64_to_be_bytes(U64(1)) \o ciphertext)
          [] how = "prefix_round_wraps" ->
                Rekeyed(u64_to_be_bytes(
                            U64Add(U64Div(U64_MAX, QUICKNET_PERIOD), U64(2)).v)
                        \o ciphertext)
          [] how = "prefix_round_max" -> Rekeyed(u64_to_be_bytes(U64_MAX) \o ciphertext)
          [] how = "garbage_ciphertext" -> Rekeyed(u64_to_be_bytes(U64(1)) \o <<0, 1, 2>>)
          [] how = "not_utf8" ->
                Rekeyed(u64_to_be_bytes(U64(1)) \o tlock_encrypt(<<255>>, U64(1)))

Forgeries ==
    {"unlocks_in_the_past", "no_key", "bad_base64", "round_only", "prefix_round_1",
     "prefix_round_wraps", "prefix_round_max", "garbage_ciphertext", "not_utf8"}

NoResult == [ok |-> FALSE, err |-> "none", msg |-> ""]
NoSignature == [signed_round |-> <<>>]

IdleUnlock ==
    [pc |-> "idle", path |-> "none",
     parsed |-> FALSE, round |-> U64(0), at_check |-> U64(0), mismatch |-> FALSE,
     ciphertext |-> <<>>, i |-> 1, contacted |-> <<>>, outcomes |-> <<>>,
     fetched |-> NoResult, decrypted |-> NoResult,
     handed |-> FALSE, reported_remaining |-> FALSE, result |-> NoResult]

Init ==
    /\ overflow_checks \in BOOLEAN
    /\ ClockIdle
    /\ HeaderIdle
    /\ ContainerIdle
    /\ ProgressIdle
    /\ now = Genesis
    /\ beacon = U64(1)
    /\ ct = NoContainer
    /\ un = IdleUnlock
    /\ info = NoInfo

\* a second passes on the local clock
Tick ==
    /\ Lt(now, U64(QUICKNET_GENESIS_TIME + MaxTime))
    /\ now' = U64Add(now, U64(1)).v
    /\ UNCHANGED <<beacon, ct, un, info, CipherFrame>>

\* the drand network publishes its next round
BeaconPublish ==
    /\ Lt(beacon, U64(MaxBeacon))
    /\ beacon' = U64Add(beacon, U64(1)).v
    /\ UNCHANGED <<now, ct, un, info, CipherFrame>>

\* cmd_lock: the unlock time must be in the future
LockContainer ==
    /\ ct = NoContainer
    /\ \E password \in Passwords, unlock_datetime \in LockInstants :
          /\ \/ Lt(now, unlock_datetime.secs)
             \/ (now = unlock_datetime.secs /\ unlock_datetime.nanos > 0)
          /\ ct' = LockedContainer(password, unlock_datetime)
    /\ UNCHANGED <<now, beacon, un, info, CipherFrame>>

\* a container file whose metadata was rewritten is put in the vault
PlantForgedContainer ==
    /\ ct = NoContainer
    /\ \E how \in Forgeries :
          ct' = ForgedFrom(LockedContainer(<<97>>,
                               DateTime(U64(QUICKNET_GENESIS_TIME + MaxLockOffset), 0)), how)
    /\ UNCHANGED <<now, beacon, un, info, CipherFrame>>

\* cmd_unlock / unlock_tlock_file up to decrypt_with_tlock: the file exists,
\* its metadata is read, the unlock time and the key's presence are checked
UnlockStart ==
    /\ un.pc = "idle"
    /\ info = NoInfo
    /\ ct # NoContainer
    /\ \E path \in {"cmd_unlock", "unlock_tlock_file"},
          unlockable \in IsUnlockableOutcomes(ct.unlocks, now) :
          un' = IF ~unlockable
                THEN [IdleUnlock EXCEPT !.pc = "done", !.path = path,
                                        !.reported_remaining = TRUE,
                                        !.result = Err("TimeLockActive", "")]
                ELSE IF ~ct.has_key
                THEN [IdleUnlock EXCEPT !.pc = "done", !.path = path,
                                        !.result = Err("MissingField", "encrypted_key")]
                ELSE [IdleUnlock EXCEPT !.pc = "decrypt", !.path = path]
    /\ UNCHANGED <<now, beacon, ct, info, CipherFrame>>

\* decrypt_with_tlock(encrypted_key, metadata.unlocks) up to the first fetch
DecryptBegin ==
    /\ un.pc = "decrypt"
    /\ LET p == decrypt_prelude(ct.encrypted_key, ct.unlocks, now)
       IN  un' = CASE p.next = "return" /\ p.result.err = "TimeLockActive" ->
                        [un EXCEPT !.pc = "done", !.parsed = TRUE, !.round = p.round,
                                   !.at_check = now, !.decrypted = p.result,
                                   !.result = p.result]
                   [] p.next = "return" /\ p.result.err # "TimeLockActive" ->
                        [un EXCEPT !.pc = "done", !.decrypted = p.result,
                                   !.result = p.result]
                   [] p.next = "panic" ->
                        [un EXCEPT !.pc = "panicked", !.parsed = TRUE, !.round = p.round,
                                   !.at_check = now, !.decrypted = Panicked,
                                   !.result = Panicked]
                   [] p.next = "fetch" ->
                        [un EXCEPT !.pc = "fetch", !.parsed = TRUE, !.round = p.round,
                                   !.at_check = now, !.mismatch = p.mismatch,
                                   !.ciphertext = p.ciphertext, !.i = 1]
    /\ UNCHANGED <<now, beacon, ct, info, CipherFrame>>

\* fetch_drand_signature: one endpoint is contacted. When it answers, or when
\* the last one has failed, decrypt_with_tlock runs on to its return.
FetchTry ==
    /\ un.pc = "fetch"
    /\ \E outcome \in EndpointOutcomes(un.round) :
          LET st == fetch_step(un.i, outcome, un.round)
              tried == [un EXCEPT !.contacted = Append(@, un.i),
                                  !.outcomes = Append(@, outcome)]
          IN  un' = IF st.next = "continue" THEN [tried EXCEPT !.i = st.i]
                    ELSE IF ~st.result.ok
                    THEN [tried EXCEPT !.pc = "done", !.fetched = st.result,
                                       !.decrypted = st.result, !.result = st.result]
                    ELSE LET d == decrypt_finish(un.ciphertext, st.result.v)
                         IN  IF d.ok
                             THEN [tried EXCEPT !.pc = "extract", !.fetched = st.result,
                                                !.decrypted = d]
                             ELSE [tried EXCEPT !.pc = "done", !.fetched = st.result,
                                                !.decrypted = d, !.result = d]
    /\ UNCHANGED <<now, beacon, ct, info, CipherFrame>>

\* TlockArchive::extract (cmd_unlock), or extract_payload_to_temp and
\* extract_encrypted_archive_with_progress (unlock_tlock_file): the payload
\* goes to the archiver with the recovered password
Extract ==
    /\ un.pc = "extract"
    /\ un' = [un EXCEPT !.pc = "done", !.handed = TRUE,
                        !.result = IF un.decrypted.v = ct.sealed_with
                                   THEN Ok(<<>>)
                                   ELSE Err("Decryption", "Invalid password")]
    /\ UNCHANGED <<now, beacon, ct, info, CipherFrame>>

\* the command has returned (or its thread has died); another may start
UnlockReturn ==
    /\ un.pc \in {"done", "panicked"}
    /\ un' = IdleUnlock
    /\ UNCHANGED <<now, beacon, ct, info, CipherFrame>>

\* get_tlock_info on the container's key, between unlocks or while one waits
\* for the network
CallGetTlockInfo ==
    /\ un.pc \in {"idle", "fetch"}
    /\ info = NoInfo
    /\ ct # NoContainer
    /\ ct.has_key
    /\ info' = [fn |-> "get_tlock_info", at |-> now,
                res |-> get_tlock_info(ct.encrypted_key, now)]
    /\ UNCHANGED <<now, beacon, ct, un, CipherFrame>>

InfoReturn ==
    /\ info # NoInfo
    /\ info' = NoInfo
    /\ UNCHANGED <<now, beacon, ct, un, CipherFrame>>

Next ==
    \/ Tick
    \/ BeaconPublish
    \/ LockContainer
    \/ PlantForgedContainer
    \/ UnlockStart
    \/ DecryptBegin
    \/ FetchTry
    \/ Extract
    \/ UnlockReturn
    \/ CallGetTlockInfo
    \/ InfoReturn

Spec == Init /\ [][Next]_vars

\* every endpoint request comes back, with an answer or an error
FairSpec == Spec /\ WF_vars(FetchTry)

----------------------------------------------------------------------------
(* Claims about the timelock cipher and the unlock paths.                  *)

IsFailure(outcome) == outcome \in {"client_err", "lookup_err"}

\* decrypt_with_tlock parsed a round and found it available at the time it looked
FoundAvailable ==
    /\ un.parsed
    /\ round_to_timestamp(un.round) # Panic
    /\ Le(round_to_timestamp(un.round), un.at_check)

\* C1: on both unlock paths the payload reaches the archiver only after
\* decrypt_with_tlock returned a password; a password is returned only when the
\* clock read by decrypt_with_tlock is at or after round_to_timestamp of the
\* embedded round; and no payload is extracted while that round is unpublished.
C1_TimeLockSafety ==
    /\ (un.pc = "extract" \/ un.handed) => un.decrypted.ok
    /\ un.decrypted.ok =>
          /\ FoundAvailable
          /\ Le(un.at_check, now)
          /\ Le(un.round, beacon)

C1_Witness ==
    /\ ct.kind = "forged"
    /\ un.path = "unlock_tlock_file"
    /\ un.handed
    /\ un.result.ok
    /\ un.round = U64(2)
    /\ un.at_check = U64(QUICKNET_GENESIS_TIME + QUICKNET_PERIOD)

\* C2: when the embedded round of a well-formed locked secret is not yet
\* available (round_to_timestamp(r) > now), decrypt_with_tlock returns
\* TimeLockActive and no endpoint is contacted; an endpoint is contacted only
\* after the availability check has passed.
C2_NoFetchBeforeAvailable ==
    /\ (/\ un.parsed
        /\ round_to_timestamp(un.round) # Panic
        /\ Lt(un.at_check, round_to_timestamp(un.round))) =>
          /\ un.pc = "done"
          /\ un.decrypted = Err("TimeLockActive", "")
          /\ un.contacted = <<>>
    /\ un.contacted # <<>> => FoundAvailable

\* the metadata's unlock time has passed and the beacon has published the
\* round, but the local clock is still before the round's time
C2_Witness ==
    /\ ct.kind = "locked"
    /\ un.parsed
    /\ Le(un.round, beacon)
    /\ Lt(un.at_check, round_to_timestamp(un.round))
    /\ un.decrypted = Err("TimeLockActive", "")
    /\ un.contacted = <<>>

\* C3: for a locked secret made by encrypt_with_tlock(secret, u) and decrypted
\* with the same u: once the round is available and an endpoint returns its
\* signature, decrypt_with_tlock returns exactly the secret.
C3_EncryptDecryptRoundTrip ==
    (ct.kind = "locked" /\ ct.unlocks = ct.locked_for) =>
        /\ un.decrypted.ok => un.decrypted.v = ct.sealed_with
        /\ (/\ un.pc \in {"extract", "done"}
            /\ FoundAvailable
            /\ \E k \in 1 .. Len(un.outcomes) : un.outcomes[k] = "ok") =>
              un.decrypted = Ok(ct.sealed_with)

C3_Witness ==
    /\ ct.kind = "locked"
    /\ ct.sealed_with = <<98, 99>>
    /\ un.outcomes = <<"lookup_err", "ok">>
    /\ un.decrypted = Ok(<<98, 99>>)

C7_FetchOrderSafety ==
    LET n == Len(un.contacted)
    IN  /\ n <= Len(DRAND_ENDPOINTS)
        /\ Len(un.outcomes) = n
        /\ \A k \in 1 .. n : un.contacted[k] = k
        /\ \A k \in 1 .. n - 1 : IsFailure(un.outcomes[k])
        /\ un.pc = "fetch" =>
              /\ un.i = n + 1
              /\ \A k \in 1 .. n : IsFailure(un.outcomes[k])
        /\ (n >= 1 /\ n < Len(DRAND_ENDPOINTS) /\ IsFailure(un.outcomes[n])) =>
              un.pc = "fetch"
        /\ (n >= 1 /\ un.outcomes[n] = "ok") =>
              un.fetched = Ok(Signature(un.round))
        /\ un.fetched.ok => (n >= 1 /\ un.outcomes[n] = "ok")
        /\ (un.fetched # NoResult /\ ~un.fetched.ok) =>
              /\ n = Len(DRAND_ENDPOINTS)
              /\ \A k \in 1 .. n : IsFailure(un.outcomes[k])

\* C7: fetch_drand_signature contacts the endpoints in list order, each at most
\* once; a client-creation or lookup failure falls through to the next; the
\* first success is returned and no later endpoint is contacted; failure is
\* reported only after every endpoint failed; and the fetch terminates.
C7_FetchInOrderAndTerminates ==
    /\ []C7_FetchOrderSafety
    /\ (un.pc = "fetch") ~> (un.pc # "fetch")

C7_Witness ==
    /\ un.contacted = <<1, 2>>
    /\ un.outcomes = <<"client_err", "ok">>
    /\ un.fetched.ok

\* C8: when the embedded round is available but every endpoint fails,
\* decrypt_with_tlock reports an error that is neither TimeLockActive nor the
\* decryption failure reported for a corrupted blob or a failed decryption.
C8_BeaconUnavailableDistinct ==
    (/\ un.pc = "done"
     /\ FoundAvailable
     /\ Len(un.outcomes) = Len(DRAND_ENDPOINTS)
     /\ \A k \in 1 .. Len(un.outcomes) : IsFailure(un.outcomes[k])) =>
        /\ ~un.decrypted.ok
        /\ un.decrypted.err \notin {"TimeLockActive", "Decryption"}

\* C9: base64-decoding the blob of encrypt_with_tlock(secret, u) gives the
\* 8-byte big-endian encoding of datetime_to_round(u) followed by the timelock
\* ciphertext, and get_tlock_info and decrypt_with_tlock both read that round.
C9_BlobCarriesTargetRound ==
    ct.kind = "locked" =>
        LET d == base64_decode(ct.encrypted_key)
            round == datetime_to_round(ct.locked_for)
        IN  /\ d.ok
            /\ Len(d.v) > 8
            /\ \A k \in 1 .. 4 : round[k] = d.v[10 - 2 * k] + 256 * d.v[9 - 2 * k]
            /\ SubSeq(d.v, 9, Len(d.v)) = tlock_encrypt(ct.sealed_with, round)
            /\ info # NoInfo => (info.res.ok /\ info.res.v.round = round)
            /\ (un.pc \in {"fetch", "extract"} \/ un.decrypted # NoResult) =>
                  (un.parsed /\ un.round = round)

C9_Witness ==
    /\ ct.kind = "locked"
    /\ ct.locked_for = DateTime(U64(QUICKNET_GENESIS_TIME + 1), 500000000)
    /\ un.pc = "fetch"
    /\ un.round = U64(2)
    /\ info # NoInfo
    /\ info.res.v.round = U64(2)

----------------------------------------------------------------------------
(* Container files: tlock_format.rs and archive.rs                         *)
(*                                                                         *)
(* A file is a sequence of cells. A header byte is a cell of its own; a    *)
(* JSON token (a brace or one member) and a unit of archive data are one   *)
(* cell each and count as one byte of the file; a "bulk" cell stands for   *)
(* the v further bytes of a long string. Lengths are u64 limb sequences.   *)

Cell(t, k, v) == [t |-> t, k |-> k, v |-> v]

ByteCells(bytes) == [i \in 1 .. Len(bytes) |-> Cell("byte", "", <<bytes[i]>>)]
\* the bytes a reader sees: archive data in a header position is not a header
\* byte the format defines, and reads as 0
Bytes(cells) ==
    [i \in 1 .. Len(cells) |-> IF cells[i].t = "byte" THEN cells[i].v[1] ELSE 0]

Weight(cell) == IF cell.t = "bulk" THEN cell.v ELSE U64(1)

RECURSIVE BulkLen(_)
\* the bytes that the cells of long strings stand for
BulkLen(cells) ==
    IF cells = <<>> THEN U64(0)
    ELSE U64Add(Head(cells).v, BulkLen(Tail(cells))).v

\* Vec::len / the length of a file: one byte for a plain cell, its weight for
\* the cell of a long string
ByteLen(cells) ==
    LET bulk == SelectSeq(cells, LAMBDA c : c.t = "bulk")
    IN  U64Add(U64(Len(cells) - Len(bulk)), BulkLen(bulk)).v

RECURSIVE read_exact(_, _)
\* Read::read_exact of n bytes: the buffer, what the reader still holds, and
\* whether the reader had n bytes
read_exact(cells, n) ==
    IF n = U64(0) THEN [ok |-> TRUE, buf |-> <<>>, rest |-> cells]
    ELSE IF cells = <<>> THEN [ok |-> FALSE, buf |-> <<>>, rest |-> <<>>]
    ELSE LET w == Weight(Head(cells))
         IN  IF Le(w, n)
             THEN LET r == read_exact(Tail(cells), U64Sub(n, w))
                  IN  [ok |-> r.ok, buf |-> <<Head(cells)>> \o r.buf, rest |-> r.rest]
             ELSE [ok |-> TRUE,
                   buf |-> <<[Head(cells) EXCEPT !.v = n]>>,
                   rest |-> <<[Head(cells) EXCEPT !.v = U64Sub(w, n)]>> \o Tail(cells)]

\* Seek::seek(SeekFrom::Current(n)): seeking past the end is not an error
seek_current(cells, n) == read_exact(cells, n).rest

\* Path::with_extension on a file name kept as its dot-separated components
with_extension(name, extension) ==
    IF Len(name) > 1 THEN SubSeq(name, 1, Len(name) - 1) \o extension
    ELSE name \o extension

Path(dir, name) == [dir |-> dir, name |-> name]

\* the file system: a set of entries, at most one for a path
Exists(d, path) == \E e \in d : e.path = path
EntryAt(d, path) == CHOOSE e \in d : e.path = path
FileAt(d, path) == EntryAt(d, path).data
remove_file(d, path) == {e \in d : e.path # path}
WriteFile(d, path, cells) ==
    remove_file(d, path) \cup {[path |-> path, kind |-> "file", data |-> cells]}
rename(d, from, to) ==
    remove_file(remove_file(d, from), to)
        \cup {[EntryAt(d, from) EXCEPT !.path = to]}

None == [some |-> FALSE, v |-> <<>>]
Some(v) == [some |-> TRUE, v |-> v]

\* serde_json::to_vec(&TlockMetadata): the members in field order, an Option
\* that is None skipped
to_vec(metadata) ==
    LET Opt(t, k, o) == IF o.some THEN <<Cell(t, k, o.v)>> ELSE <<>>
        Bool(b) == IF b THEN <<1>> ELSE <<0>>
        Instant(d) == d.secs \o <<d.nanos>>
    IN  <<Cell("{", "", <<>>),
          Cell("bool", "locked", Bool(metadata.locked)),
          Cell("datetime", "created", Instant(metadata.created)),
          Cell("datetime", "unlocks", Instant(metadata.unlocks)),
          Cell("string", "duration", metadata.duration)>>
        \o (IF metadata.duration_bulk # U64(0)
            THEN <<Cell("bulk", "duration", metadata.duration_bulk)>> ELSE <<>>)
        \o <<Cell("string", "original_file", metadata.original_file)>>
        \o Opt("u64", "drand_round", metadata.drand_round)
        \o Opt("string", "encrypted_key", metadata.encrypted_key)
        \o Opt("u64", "original_size", metadata.original_size)
        \o <<Cell("bool", "is_directory", Bool(metadata.is_directory)),
             Cell("}", "", <<>>)>>

RequiredFields == {"locked", "created", "unlocks", "duration", "original_file"}
OptionalFields == {"drand_round", "encrypted_key", "original_size"}

FieldType(k) ==
    CASE k \in {"locked", "is_directory"} -> "bool"
      [] k \in {"created", "unlocks"} -> "datetime"
      [] k \in {"duration", "original_file", "encrypted_key"} -> "string"
      [] k \in {"drand_round", "original_size"} -> "u64"

\* serde_json::from_slice::<TlockMetadata>: one object, each known member once
\* and of its type, the required ones present, unknown members ignored,
\* is_directory defaulting to false
from_slice(cells) ==
    LET n == Len(cells)
        body == SubSeq(cells, 2, n - 1)
        Known == RequiredFields \cup OptionalFields \cup {"is_directory"}
        Idx(k) == {i \in 1 .. Len(body) : body[i].k = k /\ body[i].t # "bulk"}
        At(k) == body[CHOOSE i \in Idx(k) : TRUE]
        Opt(k) == IF Idx(k) = {} \/ At(k).t = "null" THEN None ELSE Some(At(k).v)
        Instant(k) == DateTime(SubSeq(At(k).v, 1, U64Limbs), At(k).v[U64Limbs + 1])
        is_object ==
            /\ n >= 2
            /\ cells[1].t = "{"
            /\ cells[n].t = "}"
            /\ \A i \in 1 .. Len(body) :
                  \/ body[i].t \in {"bool", "datetime", "string", "u64", "null"}
                  \/ /\ body[i].t = "bulk"
                     /\ i > 1
                     /\ body[i - 1].t = "string"
                     /\ body[i - 1].k = "duration"
        typed ==
            \A i \in 1 .. Len(body) :
                (body[i].k \in Known /\ body[i].t # "bulk") =>
                    \/ body[i].t = FieldType(body[i].k)
                    \/ (body[i].t = "null" /\ body[i].k \in OptionalFields)
        once == \A k \in Known : Cardinality(Idx(k)) <= 1
        present == \A k \in RequiredFields : Idx(k) # {}
        bulk == {i \in 1 .. Len(body) : body[i].t = "bulk"}
    IN  IF ~(is_object /\ typed /\ once /\ present)
        THEN ParseError("Invalid metadata JSON")
        ELSE Ok([locked |-> At("locked").v = <<1>>,
                 created |-> Instant("created"),
                 unlocks |-> Instant("unlocks"),
                 duration |-> At("duration").v,
                 duration_bulk |-> IF bulk = {} THEN U64(0)
                                   ELSE body[CHOOSE i \in bulk : TRUE].v,
                 original_file |-> At("original_file").v,
                 drand_round |-> Opt("drand_round"),
                 encrypted_key |-> Opt("encrypted_key"),
                 original_size |-> Opt("original_size"),
                 is_directory |-> IF Idx("is_directory") = {} THEN FALSE
                                  ELSE At("is_directory").v = <<1>>])

u32_to_le_bytes(x) == <<x[1] % 256, x[1] \div 256, x[2] % 256, x[2] \div 256>>
u32_to_be_bytes(x) == <<x[2] \div 256, x[2] % 256, x[1] \div 256, x[1] % 256>>

\* `len as u32`: the low 32 bits
as_u32(len) == SubSeq(len, 1, U32Limbs)
\* `metadata_len as usize`
as_usize(x) == x \o [i \in 1 .. U64Limbs - Len(x) |-> 0]

write_header_be(metadata_len) ==
    TLOCK_MAGIC \o <<TLOCK_VERSION>> \o u32_to_be_bytes(metadata_len)
        \o [i \in 1 .. 12 |-> 0]

write_header(metadata_len) ==
    TLOCK_MAGIC \o <<TLOCK_VERSION>> \o u32_to_le_bytes(metadata_len)
        \o [i \in 1 .. 12 |-> 0]

\* the first HEADER_SIZE bytes of a reader, through read_and_validate_header,
\* and what the reader holds after them
ReadHeader(cells) ==
    LET r == read_exact(cells, U64(HEADER_SIZE))
    IN  [res |-> read_and_validate_header(Bytes(r.buf)), rest |-> r.rest]

read_metadata_to_end(d, path) ==
    IF ~Exists(d, path) THEN Err("FileNotFound", "")
    ELSE LET h == ReadHeader(FileAt(d, path))
         IN  IF ~h.res.ok THEN h.res
             ELSE LET metadata == from_slice(h.rest)
                  IN  IF ~metadata.ok THEN metadata
                      ELSE Ok([path |-> path, metadata |-> metadata.v])

read_metadata_zero_filled(d, path) ==
    IF ~Exists(d, path) THEN Err("FileNotFound", "")
    ELSE LET h == ReadHeader(FileAt(d, path))
         IN  IF ~h.res.ok THEN h.res
             ELSE LET metadata_bytes == read_exact(h.rest, as_usize(h.res.metadata_len))
                  IN  IF ~metadata_bytes.ok
                      THEN Ok([path |-> path,
                               metadata |-> [locked |-> FALSE, created |-> DateTime(U64(0), 0),
                                             unlocks |-> DateTime(U64(0), 0), duration |-> <<>>,
                                             duration_bulk |-> U64(0), original_file |-> <<>>,
                                             drand_round |-> None, encrypted_key |-> None,
                                             original_size |-> None, is_directory |-> FALSE]])
                      ELSE LET metadata == from_slice(metadata_bytes.buf)
                           IN  IF ~metadata.ok THEN metadata
                               ELSE Ok([path |-> path, metadata |-> metadata.v])

\* TlockArchive::read_metadata
read_metadata(d, path) ==
    IF ~Exists(d, path) THEN Err("FileNotFound", "")
    ELSE LET h == ReadHeader(FileAt(d, path))
         IN  IF ~h.res.ok THEN h.res
             ELSE LET metadata_bytes == read_exact(h.rest, as_usize(h.res.metadata_len))
                  IN  IF ~metadata_bytes.ok THEN ParseError("Failed to read metadata")
                      ELSE LET metadata == from_slice(metadata_bytes.buf)
                           IN  IF ~metadata.ok THEN metadata
                               ELSE Ok([path |-> path, metadata |-> metadata.v])

validate_exists_only(d, path, opened) ==
    IF ~Exists(d, path) THEN Ok(FALSE)
    ELSE IF ~opened THEN Err("Io", "")
    ELSE Ok(TRUE)

\* TlockArchive::validate; `opened` is whether File::open succeeded
validate(d, path, opened) ==
    IF ~Exists(d, path) THEN Ok(FALSE)
    ELSE IF ~opened THEN Err("Io", "")
    ELSE Ok(ReadHeader(FileAt(d, path)).res.ok)

\* sevenz_rust2, symbolically: an archive with encrypted headers is a
\* signature, a cell keyed to the password and the sealed data; only the
\* password it was sealed with opens it
SevenZSignature == Cell("7z", "sig", <<55, 122, 188, 175>>)
Seal(content, password) ==
    <<SevenZSignature, Cell("7z", "key", password)>>
        \o [i \in 1 .. Len(content) |-> Cell("7z", "data", content[i].v)]

\* sevenz_rust2::decompress_with_password and the mapping of its error
decompress_with_password(archive, password) ==
    IF Len(archive) < 2 \/ archive[1] # SevenZSignature \/ archive[2].k # "key"
       \/ \E i \in 3 .. Len(archive) : archive[i].t # "7z" \/ archive[i].k # "data"
    THEN Err("Archive", "Extraction failed")
    ELSE IF archive[2].v # password
    THEN Err("Decryption", "Invalid password")
    ELSE Ok([i \in 1 .. Len(archive) - 2 |-> Cell("byte", "", archive[i + 2].v)])

\* archive::create_encrypted_archive. ArchiveWriter::create opens (and
\* truncates) the archive file before push_source_path reads the source;
\* `archiver` is whether the library then succeeds.
create_encrypted_archive(d, source_path, password, archiver) ==
    IF ~Exists(d, source_path)
    THEN [disk |-> d, res |-> Err("FileNotFound", "")]
    ELSE LET archive_path == Path(source_path.dir, with_extension(source_path.name, <<"7z">>))
             opened == WriteFile(d, archive_path, <<>>)
         IN  IF ~archiver
             THEN [disk |-> opened, res |-> Err("Archive", "Failed to add files")]
             ELSE [disk |-> WriteFile(opened, archive_path,
                                      Seal(FileAt(opened, source_path), password)),
                   res |-> Ok(archive_path)]

\* where writing the destination can fail: File::create, or a write or the
\* flush after `landed` bytes reached the file
NoFault == [at |-> "none", landed |-> 0]

\* TlockArchive::write_tlock_file
write_tlock_file(d, tlock_path, metadata_json, payload_path, fault) ==
    IF fault.at = "create" THEN [disk |-> d, res |-> Err("Io", "")]
    ELSE LET content == ByteCells(write_header(as_u32(ByteLen(metadata_json))))
                           \o metadata_json \o FileAt(d, payload_path)
         IN  IF fault.at = "write"
             THEN [disk |-> WriteFile(d, tlock_path,
                                      SubSeq(content, 1, fault.landed)),
                   res |-> Err("Io", "")]
             ELSE [disk |-> WriteFile(d, tlock_path, content), res |-> Ok(<<>>)]

\* TlockArchive::create
create(d, source_path, metadata, password, archiver, fault) ==
    IF ~Exists(d, source_path) THEN [disk |-> d, res |-> Err("FileNotFound", "")]
    ELSE LET a == create_encrypted_archive(d, source_path, password, archiver)
             temp_7z_path == a.res.v
             metadata_json == to_vec(metadata)
             metadata_len == as_u32(ByteLen(metadata_json))
             tlock_path == Path(source_path.dir,
                                with_extension(source_path.name, <<"7z", "tlock">>))
         IN  IF ~a.res.ok THEN a
             ELSE IF ~Le(metadata_len, U32(MAX_METADATA_SIZE))
             THEN [disk |-> remove_file(a.disk, temp_7z_path),
                   res |-> ParseError("Metadata too large")]
             ELSE LET w == write_tlock_file(a.disk, tlock_path, metadata_json,
                                            temp_7z_path, fault)
                  IN  [disk |-> remove_file(w.disk, temp_7z_path),
                       res |-> IF w.res.ok THEN Ok(tlock_path) ELSE w.res]

extract_skipping_header_only(d, path, password) ==
    IF ~Exists(d, path) THEN [res |-> Err("FileNotFound", ""), handed |-> <<>>]
    ELSE LET h == ReadHeader(FileAt(d, path))
         IN  IF ~h.res.ok THEN [res |-> h.res, handed |-> <<>>]
             ELSE [res |-> decompress_with_password(h.rest, password), handed |-> h.rest]

\* TlockArchive::extract: the result, and the bytes copied to the temporary
\* archive that is handed to extract_encrypted_archive
extract(d, path, password) ==
    IF ~Exists(d, path) THEN [res |-> Err("FileNotFound", ""), handed |-> <<>>]
    ELSE LET h == ReadHeader(FileAt(d, path))
         IN  IF ~h.res.ok THEN [res |-> h.res, handed |-> <<>>]
             ELSE LET payload == seek_current(h.rest, as_usize(h.res.metadata_len))
                  IN  [res |-> decompress_with_password(payload, password),
                       handed |-> payload]

----------------------------------------------------------------------------
(* The lock paths: cmd_lock (cli.rs), lock_item and                        *)
(* lock_item_with_progress (commands.rs)                                   *)

Utf8(str) ==
    CASE str = "data" -> <<100, 97, 116, 97>>
      [] str = "photos" -> <<112, 104, 111, 116, 111, 115>>
      [] str = "txt" -> <<116, 120, 116>>
      [] str = "7z" -> <<55, 122>>
      [] str = "tlock" -> <<116, 108, 111, 99, 107>>

RECURSIVE file_name(_)
\* Path::file_name as bytes: the components joined by '.'
file_name(name) ==
    IF Len(name) = 1 THEN Utf8(name[1])
    ELSE Utf8(name[1]) \o <<46>> \o file_name(Tail(name))

\* Utc::now() when the metadata is made, and the "%Y-%m-%d" of the unlock day
CreatedAt == DateTime(Genesis, 0)
DurationStr == <<50, 48, 50, 51, 45, 48, 56, 45, 50, 51>>

\* TlockMetadata::new and the fields the lock paths set after it
NewMetadata(source, unlocks, drand_round, encrypted_key, original_size) ==
    [locked |-> TRUE, created |-> CreatedAt, unlocks |-> unlocks,
     duration |-> DurationStr, duration_bulk |-> U64(0),
     original_file |-> file_name(source.path.name),
     drand_round |-> drand_round, encrypted_key |-> encrypted_key,
     original_size |-> original_size, is_directory |-> source.kind = "dir"]

\* what can go wrong outside the program's control during a lock
NoTrouble ==
    [archiver |-> TRUE, fault |-> NoFault, cancelled |-> FALSE, rename |-> TRUE,
     opened |-> TRUE, removed |-> TRUE]

LockOutcome(d, res, validated, original_deleted, final_path) ==
    [disk |-> d, res |-> res, validated |-> validated,
     original_deleted |-> original_deleted, final_path |-> final_path]

\* the end of every lock path: the move to the vault, then the deletion of
\* the original behind validate. cmd_lock propagates errors with `?`; the
\* commands record a deletion_error and still return the LockedItem.
move_and_delete(d, fn, source_path, tlock_path, vault, delete_original, t) ==
    LET moves == IF fn = "cmd_lock" THEN vault = "vault" ELSE vault # "missing"
        final_path == IF moves THEN Path("vault", tlock_path.name) ELSE tlock_path
        placed == IF moves THEN rename(d, tlock_path, final_path) ELSE d
        valid == validate(placed, final_path, t.opened)
    IN  IF moves /\ ~t.rename
        THEN LockOutcome(d, Err("Io", "rename"), "not_run", FALSE, tlock_path)
        ELSE IF ~delete_original
        THEN LockOutcome(placed, Ok(final_path), "not_run", FALSE, final_path)
        ELSE IF ~valid.ok
        THEN LockOutcome(placed,
                         IF fn = "cmd_lock" THEN valid ELSE Ok(final_path),
                         "error", FALSE, final_path)
        ELSE IF ~valid.v
        THEN LockOutcome(placed, Ok(final_path), "false", FALSE, final_path)
        ELSE IF ~Exists(placed, source_path)
        THEN LockOutcome(placed,
                         IF fn = "cmd_lock" THEN Err("Io", "remove") ELSE Ok(final_path),
                         "true", fn # "cmd_lock", final_path)
        ELSE IF ~t.removed
        THEN LockOutcome(placed,
                         IF fn = "cmd_lock" THEN Err("Io", "remove") ELSE Ok(final_path),
                         "true", FALSE, final_path)
        ELSE LockOutcome(remove_file(placed, source_path), Ok(final_path), "true",
                         TRUE, final_path)

\* cmd_lock and lock_item: both build the metadata and call TlockArchive::create
lock_with_create(d, fn, source_path, unlock_datetime, in_future, password, vault, delete_original, t) ==
    IF ~Exists(d, source_path) \/ ~in_future
    THEN LockOutcome(d, Err(IF in_future THEN "FileNotFound" ELSE "Parse", ""),
                     "not_run", FALSE, source_path)
    ELSE LET source == EntryAt(d, source_path)
             encrypted_password == encrypt_with_tlock(password, unlock_datetime)
             metadata ==
                 IF fn = "cmd_lock"
                 THEN NewMetadata(source, unlock_datetime, None,
                                  Some(encrypted_password), None)
                 ELSE NewMetadata(source, unlock_datetime,
                                  Some(datetime_to_round(unlock_datetime)),
                                  Some(encrypted_password), Some(ByteLen(source.data)))
             made == create(d, source_path, metadata, password, t.archiver, t.fault)
         IN  IF ~made.res.ok
             THEN LockOutcome(made.disk, made.res, "not_run", FALSE, source_path)
             ELSE move_and_delete(made.disk, fn, source_path, made.res.v, vault,
                                  delete_original, t)

\* lock_item_with_progress: archives first, stops if the tracker was
\* cancelled by the time the archive call has returned, and writes the
\* container itself. The cancellation points inside the archive call are
\* those of SpecOperation
lock_item_with_progress(d, source_path, unlock_datetime, in_future, password, vault, delete_original, t) ==
    IF ~Exists(d, source_path) \/ ~in_future
    THEN LockOutcome(d, Err(IF in_future THEN "FileNotFound" ELSE "Parse", ""),
                     "not_run", FALSE, source_path)
    ELSE LET source == EntryAt(d, source_path)
             a == create_encrypted_archive(d, source_path, password, t.archiver)
             temp_archive_path == a.res.v
             metadata == NewMetadata(source, unlock_datetime,
                                     Some(datetime_to_round(unlock_datetime)),
                                     Some(encrypt_with_tlock(password, unlock_datetime)),
                                     Some(ByteLen(FileAt(a.disk, source_path))))
             tlock_path == Path(source_path.dir,
                                with_extension(source_path.name, <<"7z", "tlock">>))
             w == write_tlock_file(a.disk, tlock_path, to_vec(metadata),
                                   temp_archive_path, t.fault)
         IN  IF t.cancelled
             THEN LockOutcome(a.disk, Err("Cancelled", ""), "not_run", FALSE, source_path)
             ELSE IF ~a.res.ok
             THEN LockOutcome(a.disk, a.res, "not_run", FALSE, source_path)
             ELSE IF ~w.res.ok
             THEN LockOutcome(w.disk, w.res, "not_run", FALSE, source_path)
             ELSE move_and_delete(remove_file(w.disk, temp_archive_path),
                                  "lock_item_with_progress", source_path, tlock_path,
                                  vault, delete_original, t)

----------------------------------------------------------------------------
(* SpecContainer: one source in the working directory is locked, by        *)
(* TlockArchive::create or by a lock path; the container is then read,     *)
(* validated, extracted, and damaged or rewritten by others.               *)

MaxLanded == 30
MaxWraps == 2

Sources ==
    {[path |-> Path("work", <<"data", "txt">>), kind |-> "file",
      data |-> ByteCells(<<104, 105>>)],
     [path |-> Path("work", <<"data", "7z">>), kind |-> "file",
      data |-> ByteCells(<<55, 122, 188>>)],
     [path |-> Path("work", <<"photos">>), kind |-> "dir",
      data |-> ByteCells(<<1, 2, 3, 4>>)]}

\* lengths of the duration string beyond its ten characters: none, a long
\* one, and those that put the JSON at 1 MiB and at multiples of 2^32 bytes
BulkInputs ==
    {U64(0), U64(1000), U64(MAX_METADATA_SIZE - 8), U64(MAX_METADATA_SIZE - 7)}
        \cup {U64Sub(<<0, 0, w, 0>>, U64(8)) : w \in 1 .. MaxWraps}
        \cup {<<5, 0, w, 0>> : w \in 1 .. MaxWraps}

MetadataInputs ==
    {[locked |-> TRUE, created |-> CreatedAt,
      unlocks |-> DateTime(U64(QUICKNET_GENESIS_TIME + 1), n),
      duration |-> DurationStr, duration_bulk |-> b,
      original_file |-> Utf8("data"),
      drand_round |-> o, encrypted_key |-> None, original_size |-> o,
      is_directory |-> o.some] :
        n \in {999999999}, b \in BulkInputs, o \in {None, Some(U64_MAX)}}

PlainMetadata ==
    CHOOSE m \in MetadataInputs : m.duration_bulk = U64(0) /\ ~m.drand_round.some

FaultInputs ==
    {NoFault, [at |-> "create", landed |-> 0]}
        \cup {[at |-> "write", landed |-> n] : n \in {0, 7, HEADER_SIZE, MaxLanded}}

\* one thing goes wrong at a time
TroubleInputs ==
    {NoTrouble,
     [NoTrouble EXCEPT !.archiver = FALSE], [NoTrouble EXCEPT !.cancelled = TRUE],
     [NoTrouble EXCEPT !.rename = FALSE], [NoTrouble EXCEPT !.opened = FALSE],
     [NoTrouble EXCEPT !.removed = FALSE]}
        \cup {[NoTrouble EXCEPT !.fault = f] : f \in FaultInputs}

NotMade == [by |-> "none"]
Resting(made) == [fn |-> "none", made |-> made]

\* no arithmetic of these operations can overflow: one build profile
ContainerInit ==
    /\ overflow_checks = FALSE
    /\ ClockIdle
    /\ HeaderIdle
    /\ CipherIdle
    /\ ProgressIdle
    /\ disk \in {{source} : source \in Sources}
    /\ op = Resting(NotMade)

TheSource == CHOOSE source \in Sources : source \in disk
Fresh == op = Resting(NotMade) /\ \E source \in Sources : disk = {source}

CallCreate ==
    /\ Fresh
    /\ \E metadata \in MetadataInputs, password \in Passwords,
          archiver \in BOOLEAN, fault \in FaultInputs :
          /\ (~archiver \/ fault # NoFault) => metadata = PlainMetadata
          /\ ~archiver => fault = NoFault
          /\ LET source == TheSource
                 a == create_encrypted_archive(disk, source.path, password, archiver)
                 r == create(disk, source.path, metadata, password, archiver, fault)
             IN  /\ disk' = r.disk
                 /\ op' = [fn |-> "create", res |-> r.res, before |-> disk,
                           archived |-> a.res.ok, fault |-> fault,
                           json_len |-> ByteLen(to_vec(metadata)),
                           made |-> [by |-> "create", ok |-> r.res.ok, source |-> source,
                                     metadata |-> metadata, password |-> password,
                                     sealed |-> IF a.res.ok THEN FileAt(a.disk, a.res.v)
                                                ELSE <<>>,
                                     tlock_path |-> Path(source.path.dir,
                                         with_extension(source.path.name, <<"7z", "tlock">>)),
                                     touched |-> FALSE]]
    /\ UNCHANGED ContainerFrame

\* a lock path runs from its argument checks to its return
CallLock ==
    /\ Fresh
    /\ \E fn \in {"cmd_lock", "lock_item", "lock_item_with_progress"},
          unlock_datetime \in {DateTime(U64(QUICKNET_GENESIS_TIME + 1), 500000000)},
          in_future \in BOOLEAN, password \in {<<97>>},
          vault \in {"none", "vault", "missing"}, delete_original \in BOOLEAN,
          t \in TroubleInputs :
          LET source == TheSource
              r == IF fn = "lock_item_with_progress"
                   THEN lock_item_with_progress(disk, source.path, unlock_datetime,
                                                in_future, password, vault,
                                                delete_original, t)
                   ELSE lock_with_create(disk, fn, source.path, unlock_datetime,
                                         in_future, password, vault, delete_original, t)
          IN  /\ disk' = r.disk
              /\ op' = [fn |-> fn, res |-> r.res, before |-> disk,
                        delete_original |-> delete_original,
                        validated |-> r.validated,
                        original_deleted |-> r.original_deleted,
                        made |-> [by |-> fn, ok |-> r.res.ok, source |-> source,
                                  metadata |-> <<>>, password |-> password,
                                  sealed |-> <<>>, tlock_path |-> r.final_path,
                                  touched |-> FALSE]]
    /\ UNCHANGED ContainerFrame

TamperInputs ==
    {"truncate_0", "truncate_7", "truncate_23", "truncate_24", "truncate_26",
     "magic", "version", "reserved", "payload_empty", "payload_other", "json_unclosed"}

Tampered(cells, how) ==
    LET h == ReadHeader(cells)
        json == IF h.res.ok THEN read_exact(h.rest, as_usize(h.res.metadata_len)).buf
                ELSE <<>>
        head == SubSeq(cells, 1, HEADER_SIZE)
    IN  CASE how = "truncate_0" -> <<>>
          [] how = "truncate_7" -> SubSeq(cells, 1, 7)
          [] how = "truncate_23" -> SubSeq(cells, 1, HEADER_SIZE - 1)
          [] how = "truncate_24" -> head
          [] how = "truncate_26" -> SubSeq(cells, 1, HEADER_SIZE + 2)
          [] how = "magic" -> [cells EXCEPT ![7] = Cell("byte", "", <<50>>)]
          [] how = "version" -> [cells EXCEPT ![8] = Cell("byte", "", <<TLOCK_VERSION + 1>>)]
          [] how = "reserved" -> [cells EXCEPT ![HEADER_SIZE] = Cell("byte", "", <<255>>)]
          [] how = "payload_empty" -> head \o json
          [] how = "payload_other" -> head \o json \o Seal(ByteCells(<<9>>), <<120>>)
          [] how = "json_unclosed" ->
                [cells EXCEPT ![HEADER_SIZE + Len(json)] = Cell("null", "end", <<>>)]

\* someone else rewrites the container file
Tamper ==
    /\ op.fn = "none"
    /\ op.made.by = "create"
    /\ op.made.ok
    /\ ~op.made.touched
    /\ \E how \in TamperInputs :
          disk' = WriteFile(disk, op.made.tlock_path,
                            Tampered(FileAt(disk, op.made.tlock_path), how))
    /\ op' = [op EXCEPT !.made.touched = TRUE]
    /\ UNCHANGED ContainerFrame

\* the paths a caller may name: what is in the two directories, and a path
\* where nothing is
PathInputs == {e.path : e \in disk} \cup {Path("vault", <<"nothing">>)}

CallReadMetadata ==
    /\ op.fn = "none"
    /\ op.made.by \in {"none", "create"}
    /\ \E path \in PathInputs :
          op' = [fn |-> "read_metadata", path |-> path,
                 res |-> read_metadata(disk, path), made |-> op.made]
    /\ UNCHANGED <<disk, ContainerFrame>>

CallValidate ==
    /\ op.fn = "none"
    /\ op.made.by \in {"none", "create"}
    /\ \E path \in PathInputs, opened \in BOOLEAN :
          op' = [fn |-> "validate", path |-> path, opened |-> opened,
                 res |-> validate(disk, path, opened), made |-> op.made]
    /\ UNCHANGED <<disk, ContainerFrame>>

CallExtract ==
    /\ op.fn = "none"
    /\ op.made.by \in {"none", "create"}
    /\ \E path \in PathInputs, password \in Passwords :
          LET r == extract(disk, path, password)
          IN  op' = [fn |-> "extract", path |-> path, password |-> password,
                     res |-> r.res, handed |-> r.handed, made |-> op.made]
    /\ UNCHANGED <<disk, ContainerFrame>>

OpReturn ==
    /\ op.fn # "none"
    /\ op' = Resting(op.made)
    /\ UNCHANGED <<disk, ContainerFrame>>

ContainerNext ==
    \/ CallCreate
    \/ CallLock
    \/ Tamper
    \/ CallReadMetadata
    \/ CallValidate
    \/ CallExtract
    \/ OpReturn

SpecContainer == ContainerInit /\ [][ContainerNext]_vars

----------------------------------------------------------------------------
(* Claims about container files, checked under SpecContainer.              *)

\* the metadata length a 24-byte header declares, bytes 8..11 little-endian
DeclaredLength(cells) ==
    LET b == Bytes(SubSeq(cells, 1, HEADER_SIZE))
    IN  <<b[9] + 256 * b[10], b[11] + 256 * b[12], 0, 0>>

HeaderPasses(cells) ==
    /\ Len(cells) >= HEADER_SIZE
    /\ read_and_validate_header(Bytes(SubSeq(cells, 1, HEADER_SIZE))).ok

\* C11: read_metadata on a file shorter than 24 bytes, or with a valid header
\* and fewer bytes after it than the header declares, returns a Parse error,
\* never metadata.
C11_TruncatedFileIsParseError ==
    (op.fn = "read_metadata" /\ Exists(disk, op.path)) =>
        LET cells == FileAt(disk, op.path)
            short == Lt(ByteLen(cells), U64(24))
            cut == /\ HeaderPasses(cells)
                   /\ Lt(ByteLen(SubSeq(cells, HEADER_SIZE + 1, Len(cells))),
                         DeclaredLength(cells))
        IN  (short \/ cut) => (~op.res.ok /\ op.res.err = "Parse")

\* a container cut two bytes into its metadata
C11_Witness ==
    /\ op.fn = "read_metadata"
    /\ op.made.by = "create"
    /\ op.made.touched
    /\ Exists(disk, op.path)
    /\ HeaderPasses(FileAt(disk, op.path))
    /\ Len(FileAt(disk, op.path)) = HEADER_SIZE + 2
    /\ op.res = ParseError("Failed to read metadata")

ValidMetadata(metadata) ==
    Le(ByteLen(to_vec(metadata)), U64(MAX_METADATA_SIZE))

\* C12: read_metadata of the container that create wrote for a valid metadata
\* value succeeds, with no password, and every field of the metadata it
\* returns equals the field that went in.
C12_MetadataRoundTrip ==
    (/\ op.fn = "read_metadata"
     /\ op.made.by = "create"
     /\ op.made.ok
     /\ ~op.made.touched
     /\ op.path = op.made.tlock_path
     /\ ValidMetadata(op.made.metadata)) =>
        /\ op.res.ok
        /\ LET got == op.res.v.metadata
               meta == op.made.metadata
           IN  /\ got.locked = meta.locked
               /\ got.created = meta.created
               /\ got.unlocks = meta.unlocks
               /\ got.duration = meta.duration
               /\ got.duration_bulk = meta.duration_bulk
               /\ got.original_file = meta.original_file
               /\ got.drand_round = meta.drand_round
               /\ got.encrypted_key = meta.encrypted_key
               /\ got.original_size = meta.original_size
               /\ got.is_directory = meta.is_directory

\* a long duration string, optional fields present, sub-second instants
C12_Witness ==
    /\ op.fn = "read_metadata"
    /\ op.made.by = "create"
    /\ ~op.made.touched
    /\ op.path = op.made.tlock_path
    /\ op.made.metadata.duration_bulk = U64(1000)
    /\ op.made.metadata.drand_round = Some(U64_MAX)
    /\ op.res.ok
    /\ op.res.v.metadata.unlocks.nanos = 999999999

\* an extract of the container that create wrote, as create left it
ExtractOfCreated ==
    /\ op.fn = "extract"
    /\ op.made.by = "create"
    /\ op.made.ok
    /\ ~op.made.touched
    /\ op.path = op.made.tlock_path

\* C13: for a container written by create(source, meta, pw), extract hands
\* the archiver exactly the sealed bytes the archiver produced, so extract
\* with pw reproduces the content of the source byte for byte and extract
\* with any other password returns an error.
C13_ExtractRoundTrip ==
    ExtractOfCreated =>
        /\ op.handed = op.made.sealed
        /\ IF op.password = op.made.password
           THEN op.res = Ok(op.made.source.data)
           ELSE ~op.res.ok

\* the same, for sources whose archive is not written over the source itself
\* and metadata that fits the maximum
C13_ExtractRoundTripOtherNames ==
    (/\ ExtractOfCreated
     /\ with_extension(op.made.source.path.name, <<"7z">>) # op.made.source.path.name
     /\ ValidMetadata(op.made.metadata)) =>
        /\ op.handed = op.made.sealed
        /\ IF op.password = op.made.password
           THEN op.res = Ok(op.made.source.data)
           ELSE ~op.res.ok

C13_OtherNamesWitness ==
    /\ ExtractOfCreated
    /\ op.made.source.path.name = <<"data", "txt">>
    /\ op.password = op.made.password
    /\ op.res = Ok(op.made.source.data)

\* C14: when create returns an error after the archiver step succeeded, no
\* file is left at the destination path.
C14_NoPartialDestination ==
    (op.fn = "create" /\ op.archived /\ ~op.res.ok) =>
        ~Exists(disk, op.made.tlock_path)

\* create failed on a write after header and part of the metadata had
\* reached the destination, which is still there
C14_PartialLeft ==
    /\ op.fn = "create"
    /\ op.archived
    /\ op.res = Err("Io", "")
    /\ op.fault = [at |-> "write", landed |-> MaxLanded]
    /\ Exists(disk, op.made.tlock_path)
    /\ Len(FileAt(disk, op.made.tlock_path)) = MaxLanded

\* C15: create returns the size error and writes no destination whenever the
\* metadata JSON is longer than 1 MiB, whatever its length; the metadata
\* length in the header of a container it wrote is the length of the JSON.
C15_OversizeRejected ==
    op.fn = "create" =>
        /\ Lt(U64(MAX_METADATA_SIZE), op.json_len) =>
              /\ op.res = ParseError("Metadata too large")
              /\ ~Exists(disk, op.made.tlock_path)
        /\ op.res.ok =>
              DeclaredLength(FileAt(disk, op.made.tlock_path)) = op.json_len

\* the same for JSON shorter than 2^32 bytes
C15_OversizeRejectedBelowWrap ==
    (op.fn = "create" /\ Lt(op.json_len, <<0, 0, 1, 0>>)) =>
        /\ Lt(U64(MAX_METADATA_SIZE), op.json_len) =>
              /\ op.res = ParseError("Metadata too large")
              /\ ~Exists(disk, op.made.tlock_path)
        /\ op.res.ok =>
              DeclaredLength(FileAt(disk, op.made.tlock_path)) = op.json_len

\* JSON of one byte more than the maximum is turned away
C15_BelowWrapWitness ==
    /\ op.fn = "create"
    /\ op.json_len = U64(MAX_METADATA_SIZE + 1)
    /\ op.res = ParseError("Metadata too large")
    /\ ~Exists(disk, op.made.tlock_path)

\* JSON of exactly 2^32 bytes is accepted, and its header declares no metadata
C15_WrappedLengthAccepted ==
    /\ op.fn = "create"
    /\ op.json_len = <<0, 0, 1, 0>>
    /\ op.res.ok
    /\ DeclaredLength(FileAt(disk, op.made.tlock_path)) = U64(0)

\* C16: validate reports a file that can be opened as valid exactly when the
\* file exists, its header passes header validation, and the metadata bytes
\* the header declares are present and parse as metadata JSON.
C16_ValidateIffWellFormed ==
    (op.fn = "validate" /\ op.opened) =>
        (op.res = Ok(TRUE) <=>
            /\ Exists(disk, op.path)
            /\ HeaderPasses(FileAt(disk, op.path))
            /\ read_metadata(disk, op.path).ok)

\* C16, amended: validate reports a file as valid exactly when the file
\* exists, can be opened and its header passes header validation; the
\* metadata bytes play no part.
C16_ValidateIffHeaderPasses ==
    op.fn = "validate" =>
        (op.res = Ok(TRUE) <=>
            /\ Exists(disk, op.path)
            /\ op.opened
            /\ HeaderPasses(FileAt(disk, op.path)))

\* a container cut right after its header, with none of the metadata bytes
\* the header declares, is reported valid
C16_HeaderOnlyIsValid ==
    /\ op.fn = "validate"
    /\ op.opened
    /\ op.made.by = "create"
    /\ op.made.touched
    /\ op.path = op.made.tlock_path
    /\ Exists(disk, op.path)
    /\ Len(FileAt(disk, op.path)) = HEADER_SIZE
    /\ DeclaredLength(FileAt(disk, op.path)) # U64(0)
    /\ read_metadata(disk, op.path) = ParseError("Failed to read metadata")
    /\ op.res = Ok(TRUE)

LockPaths == {"cmd_lock", "lock_item", "lock_item_with_progress"}

\* C17: in every lock path the original source is deleted only if deletion
\* was requested and validate on the final container path returned true;
\* in every other outcome the source is on disk as it was.
C17_DeleteOnlyBehindValidate ==
    (op.fn \in LockPaths /\ op.made.source \notin disk) =>
        (op.delete_original /\ op.validated = "true")

\* the same, for sources whose archive is not written over the source itself
C17_DeleteOnlyBehindValidateOtherNames ==
    (/\ op.fn \in LockPaths
     /\ with_extension(op.made.source.path.name, <<"7z">>) # op.made.source.path.name
     /\ op.made.source \notin disk) =>
        (op.delete_original /\ op.validated = "true" /\ op.res.ok)

C17_OtherNamesWitness ==
    /\ op.fn \in LockPaths
    /\ op.made.source.path.name = <<"data", "txt">>
    /\ op.delete_original
    /\ op.validated = "error"
    /\ op.made.source \in disk

\* a lock that was asked to keep the original returns with the original gone
C17_SourceGoneUnasked ==
    /\ op.fn \in LockPaths
    /\ ~op.delete_original
    /\ op.res.ok
    /\ ~Exists(disk, op.made.source.path)

\* payloads to put in the place of a file's own: none, another archive, and
\* bytes that are no archive
PayloadInputs ==
    {<<>>, Seal(ByteCells(<<9, 9>>), <<120>>), ByteCells(<<123, 125, 0>>)}

\* the file at `path` with the bytes after its header and declared metadata
\* replaced by `payload`
WithPayload(d, path, payload) ==
    LET cells == FileAt(d, path)
        json == read_exact(SubSeq(cells, HEADER_SIZE + 1, Len(cells)),
                           DeclaredLength(cells)).buf
    IN  WriteFile(d, path, SubSeq(cells, 1, HEADER_SIZE) \o json \o payload)

MetadataPresent(cells) ==
    /\ HeaderPasses(cells)
    /\ read_exact(SubSeq(cells, HEADER_SIZE + 1, Len(cells)), DeclaredLength(cells)).ok

\* C18: the result of read_metadata does not depend on the payload: a file
\* with the same 24-byte header and the same metadata bytes and any other
\* payload, the empty one included, gives the same outcome and metadata.
C18_PayloadIndependence ==
    (/\ op.fn = "read_metadata"
     /\ Exists(disk, op.path)
     /\ MetadataPresent(FileAt(disk, op.path))) =>
        \A payload \in PayloadInputs :
            read_metadata(WithPayload(disk, op.path, payload), op.path) = op.res

\* metadata was read from a container with a payload, and is read the same
\* when the payload is gone
C18_Witness ==
    /\ op.fn = "read_metadata"
    /\ op.made.by = "create"
    /\ ~op.made.touched
    /\ op.path = op.made.tlock_path
    /\ op.res.ok
    /\ MetadataPresent(FileAt(disk, op.path))
    /\ WithPayload(disk, op.path, <<>>) # disk
    /\ read_metadata(WithPayload(disk, op.path, <<>>), op.path) = op.res

----------------------------------------------------------------------------
(* SpecProgress: one ProgressTracker (progress.rs) and the calls made on   *)
(* it. Its fields are atomics; every method is one load or store sequence  *)
(* and is taken as one step.                                               *)

MaxBytes == 1
MaxWritten == 2
MaxFiles == 1
MaxAdvances == 2

\* throttle_ms of ProgressTracker::new
THROTTLE_MS == 100

\* the monotonic clock when the tracker is made: the machine has been up for
\* longer than the throttle interval
FirstInstant == THROTTLE_MS + 1

RECURSIVE Gcd(_, _)
Gcd(a, b) == IF b = 0 THEN a ELSE Gcd(b, a % b)

\* an f64 that is the quotient of two small integers, in lowest terms
Ratio(num, den) == [num |-> num \div Gcd(num, den), den |-> den \div Gcd(num, den)]

\* ProgressTracker::new at instant FirstInstant. Beside the tracker's fields
\* the record keeps the monotonic clock and what the callers have done so
\* far: whether set_total and cancel were called, the bytes they reported,
\* whether bytes were reported before the total was set, the instant of the
\* last should_emit that returned true with no force_next_emit after it (-1:
\* none), the instant since which nothing was emitted, how often the clock
\* was advanced, and the last call with the counters before it
new_tracker ==
    [made |-> TRUE, total_bytes |-> 0, bytes_written |-> 0, total_files |-> 0,
     files_processed |-> 0, total_known |-> FALSE, cancelled |-> FALSE,
     last_emit |-> FirstInstant,
     clock |-> FirstInstant, advances |-> 0,
     total_set |-> FALSE, cancel_called |-> FALSE, done |-> 0, early |-> FALSE,
     true_at |-> -1, quiet_since |-> FirstInstant,
     last |-> [fn |-> "none"]]

set_total_resetting(p, total_bytes, total_files) ==
    [p EXCEPT !.total_bytes = total_bytes, !.total_files = total_files,
              !.total_known = TRUE, !.bytes_written = 0, !.files_processed = 0,
              !.cancelled = FALSE]

\* ProgressTracker::set_total
set_total(p, total_bytes, total_files) ==
    [p EXCEPT !.total_bytes = total_bytes, !.total_files = total_files,
              !.total_known = TRUE]

add_bytes_storing(p, bytes) == [p EXCEPT !.bytes_written = bytes]

\* ProgressTracker::add_bytes
add_bytes(p, bytes) == [p EXCEPT !.bytes_written = @ + bytes]

\* ProgressTracker::set_bytes_written
set_bytes_written(p, bytes) == [p EXCEPT !.bytes_written = bytes]

\* ProgressTracker::increment_files
increment_files(p) == [p EXCEPT !.files_processed = @ + 1]

\* ProgressTracker::is_cancelled
is_cancelled(p) == p.cancelled

\* ProgressTracker::cancel
cancel(p) == [p EXCEPT !.cancelled = TRUE]

percentage_clamped(p) ==
    IF ~p.total_known THEN None
    ELSE IF p.total_bytes = 0 THEN Some(Ratio(100, 1))
    ELSE IF p.bytes_written > p.total_bytes THEN Some(Ratio(100, 1))
    ELSE LET q == Ratio(p.bytes_written, p.total_bytes)
         IN  Some(Ratio(q.num * 100, q.den))

\* ProgressTracker::percentage: (written as f64 / total as f64) * 100.0
percentage(p) ==
    IF ~p.total_known THEN None
    ELSE IF p.total_bytes = 0 THEN Some(Ratio(100, 1))
    ELSE LET q == Ratio(p.bytes_written, p.total_bytes)
         IN  Some(Ratio(q.num * 100, q.den))

should_emit_without_store(p) ==
    [v |-> p.clock - p.last_emit >= THROTTLE_MS, p |-> p]

\* ProgressTracker::should_emit, under the last_emit mutex: the answer and
\* the tracker after it
should_emit(p) ==
    IF p.clock - p.last_emit >= THROTTLE_MS
    THEN [v |-> TRUE, p |-> [p EXCEPT !.last_emit = p.clock]]
    ELSE [v |-> FALSE, p |-> p]

force_next_emit_to_now(p) == [p EXCEPT !.last_emit = p.clock]

\* ProgressTracker::force_next_emit
force_next_emit(p) == [p EXCEPT !.last_emit = p.clock - (THROTTLE_MS + 1)]

\* ProgressTracker::with_total
with_total(total_bytes, total_files) ==
    [set_total(new_tracker, total_bytes, total_files) EXCEPT !.total_set = TRUE]

\* the call `fn` has returned `p`; the counters were those of `before`
Returned(p, fn, before) ==
    [p EXCEPT !.last = [fn |-> fn, bytes |-> before.bytes_written,
                        files |-> before.files_processed]]

ProgressInit ==
    /\ overflow_checks = FALSE
    /\ ClockIdle
    /\ HeaderIdle
    /\ CipherIdle
    /\ ContainerIdle
    /\ PayloadIdle
    /\ OperationIdle
    /\ pt \in {new_tracker}
              \cup {with_total(b, f) : b \in 0 .. MaxBytes, f \in 0 .. MaxFiles}

\* time passes on the monotonic clock: a millisecond, or just short of the
\* throttle interval
Advance ==
    /\ pt.advances < MaxAdvances
    /\ \E d \in {1, THROTTLE_MS - 1} :
          pt' = [pt EXCEPT !.clock = @ + d, !.advances = @ + 1]
    /\ UNCHANGED ProgressFrame

SetTotal ==
    /\ \E total_bytes \in 0 .. MaxBytes, total_files \in 0 .. MaxFiles :
          pt' = [Returned(set_total(pt, total_bytes, total_files), "set_total", pt)
                    EXCEPT !.total_set = TRUE]
    /\ UNCHANGED ProgressFrame

AddBytes ==
    /\ \E bytes \in 0 .. MaxBytes :
          /\ pt.bytes_written + bytes <= MaxWritten
          /\ pt' = [Returned(add_bytes(pt, bytes), "add_bytes", pt)
                       EXCEPT !.done = @ + bytes,
                              !.early = @ \/ (~pt.total_set /\ bytes > 0)]
    /\ UNCHANGED ProgressFrame

SetBytesWritten ==
    /\ \E bytes \in 0 .. MaxWritten :
          pt' = [Returned(set_bytes_written(pt, bytes), "set_bytes_written", pt)
                    EXCEPT !.done = bytes, !.early = FALSE]
    /\ UNCHANGED ProgressFrame

IncrementFiles ==
    /\ pt.files_processed < MaxFiles
    /\ pt' = Returned(increment_files(pt), "increment_files", pt)
    /\ UNCHANGED ProgressFrame

Cancel ==
    /\ ~pt.cancel_called
    /\ pt' = [Returned(cancel(pt), "cancel", pt) EXCEPT !.cancel_called = TRUE]
    /\ UNCHANGED ProgressFrame

CallPercentage ==
    /\ pt.last.fn # "percentage"
    /\ pt' = [pt EXCEPT !.last = [fn |-> "percentage", v |-> percentage(pt),
                                  bytes |-> pt.bytes_written,
                                  files |-> pt.files_processed]]
    /\ UNCHANGED ProgressFrame

CallShouldEmit ==
    /\ LET r == should_emit(pt)
       IN  pt' = [r.p EXCEPT !.last = [fn |-> "should_emit", v |-> r.v,
                                       at |-> pt.clock, since |-> pt.true_at,
                                       elapsed |-> pt.clock - pt.quiet_since,
                                       bytes |-> pt.bytes_written,
                                       files |-> pt.files_processed],
                             !.true_at = IF r.v THEN pt.clock ELSE @,
                             !.quiet_since = IF r.v THEN pt.clock ELSE @]
    /\ UNCHANGED ProgressFrame

CallForceNextEmit ==
    /\ pt.last.fn # "force_next_emit"
    /\ pt' = [Returned(force_next_emit(pt), "force_next_emit", pt)
                 EXCEPT !.true_at = -1]
    /\ UNCHANGED ProgressFrame

ProgressNext ==
    \/ Advance
    \/ SetTotal
    \/ AddBytes
    \/ SetBytesWritten
    \/ IncrementFiles
    \/ Cancel
    \/ CallPercentage
    \/ CallShouldEmit
    \/ CallForceNextEmit

SpecProgress == ProgressInit /\ [][ProgressNext]_vars

\* C20: percentage() is None as long as set_total has not been called,
\* whatever was added; once the total is known it is 100 when the total is
\* 0 and otherwise the bytes done over the total times 100, also above 100;
\* bytes added before set_total are among the bytes done.
C20_Percentage ==
    pt.last.fn = "percentage" =>
        pt.last.v = IF ~pt.total_set THEN None
                    ELSE IF pt.total_bytes = 0 THEN Some(Ratio(100, 1))
                    ELSE Some(Ratio(pt.done * 100, pt.total_bytes))

\* 2 bytes were added before set_total(1, ..): percentage() is 200
C20_Witness ==
    /\ pt.last.fn = "percentage"
    /\ pt.early
    /\ pt.total_set
    /\ pt.total_bytes = 1
    /\ pt.done = 2
    /\ pt.last.v = Some(Ratio(200, 1))

\* bytes were added and set_total has not been called: percentage() is None
C20_NoneWitness ==
    /\ pt.last.fn = "percentage"
    /\ ~pt.total_set
    /\ pt.done > 0
    /\ pt.last.v = None

\* C21: cancellation is sticky: is_cancelled() is false on a new tracker and
\* as long as cancel() was never called, and true in every state after
\* cancel() was called, whatever tracker operations follow.
C21_CancelSticky == is_cancelled(pt) = pt.cancel_called

\* cancel() was called and set_total was the last call since
C21_Witness ==
    /\ pt.cancel_called
    /\ pt.last.fn = "set_total"
    /\ is_cancelled(pt)

C23_Throttle ==
    pt.last.fn = "should_emit" =>
        /\ (pt.last.v /\ pt.last.since >= 0) =>
              pt.last.at - pt.last.since >= THROTTLE_MS
        /\ pt.last.elapsed >= THROTTLE_MS => pt.last.v

\* should_emit returned true exactly one interval after it last did
C23_Witness ==
    /\ pt.last.fn = "should_emit"
    /\ pt.last.v
    /\ pt.last.since >= 0
    /\ pt.last.at - pt.last.since = THROTTLE_MS

\* should_emit returned false one millisecond short of the interval
C23_ShortWitness ==
    /\ pt.last.fn = "should_emit"
    /\ ~pt.last.v
    /\ pt.last.since >= 0
    /\ pt.last.at - pt.last.since = THROTTLE_MS - 1

----------------------------------------------------------------------------
(* ProgressTracker::build_payload against a concurrent set_total:          *)
(* progress.rs. Every atomic load and store is one step.                   *)

MaxSetTotals == 2

\* a new tracker on which the producer has reported `written` bytes, a thread
\* about to call set_total, and a thread about to call build_payload
payload_race(written) ==
    [made |-> TRUE,
     total_bytes |-> 0, bytes_written |-> written, total_files |-> 0,
     files_processed |-> 0, total_known |-> FALSE,
     setter |-> [pc |-> "idle", total_bytes |-> 0, total_files |-> 0, calls |-> 0,
                 zero_set |-> FALSE],
     builder |-> [pc |-> "183", total_known |-> FALSE, bytes_written |-> 0,
                  files_processed |-> 0, ret |-> "188", total |-> 0, written |-> 0,
                  payload |-> [percentage |-> None, total_bytes |-> None,
                               eta_seconds |-> None, total_files |-> None]]]

PayloadInit ==
    /\ overflow_checks = FALSE
    /\ ClockIdle
    /\ HeaderIdle
    /\ CipherIdle
    /\ ContainerIdle
    /\ pt = NoTracker
    /\ OperationIdle
    /\ pl \in {payload_race(w) : w \in 0 .. MaxBytes}

\* set_total is called and stores total_bytes
SetTotalStoreBytes ==
    /\ pl.setter.pc = "idle"
    /\ pl.setter.calls < MaxSetTotals
    /\ \E total_bytes \in 0 .. MaxBytes, total_files \in 1 .. MaxFiles :
          pl' = [pl EXCEPT !.total_bytes = total_bytes,
                           !.setter = [@ EXCEPT !.pc = "100", !.calls = @ + 1,
                                                !.total_bytes = total_bytes,
                                                !.total_files = total_files,
                                                !.zero_set = @ \/ total_bytes = 0]]
    /\ UNCHANGED PayloadFrame

SetTotalStoreFiles ==
    /\ pl.setter.pc = "100"
    /\ pl' = [pl EXCEPT !.total_files = pl.setter.total_files, !.setter.pc = "101"]
    /\ UNCHANGED PayloadFrame

SetTotalStoreKnown ==
    /\ pl.setter.pc = "101"
    /\ pl' = [pl EXCEPT !.total_known = TRUE, !.setter.pc = "idle"]
    /\ UNCHANGED PayloadFrame

\* let total_known = self.total_known.load(..)
BuildLoadKnown ==
    /\ pl.builder.pc = "183"
    /\ pl' = [pl EXCEPT !.builder.total_known = pl.total_known, !.builder.pc = "184"]
    /\ UNCHANGED PayloadFrame

\* the loads of bytes_written and files_processed, which no thread of this
\* specification writes; then the call of percentage() for the first field
BuildLoadCounters ==
    /\ pl.builder.pc = "184"
    /\ pl' = [pl EXCEPT !.builder.bytes_written = pl.bytes_written,
                        !.builder.files_processed = pl.files_processed,
                        !.builder.ret = "188",
                        !.builder.pc = "131"]
    /\ UNCHANGED PayloadFrame

\* eta_seconds, given what its call of percentage() returned; the estimate
\* itself depends on the elapsed time only
eta_of(pct) ==
    IF ~pct.some THEN None
    ELSE IF pct.v.num <= 0 THEN None
    ELSE IF pct.v.num >= 100 * pct.v.den THEN Some("zero")
    ELSE Some("estimate")

\* percentage() returns r to build_payload, which called it for the
\* percentage field or, through eta_seconds, for the eta_seconds field
percentage_returns(b, r) ==
    IF b.ret = "188"
    THEN [b EXCEPT !.payload.percentage = r, !.pc = "190"]
    ELSE [b EXCEPT !.payload.eta_seconds = eta_of(r), !.pc = "198"]

\* percentage(): if !self.total_known.load(..) { return None; }
PercentageLoadKnown ==
    /\ pl.builder.pc = "131"
    /\ pl' = IF pl.total_known
             THEN [pl EXCEPT !.builder.pc = "134"]
             ELSE [pl EXCEPT !.builder = percentage_returns(@, None)]
    /\ UNCHANGED PayloadFrame

\* percentage(): let total = self.total_bytes.load(..); 100.0 if it is 0
PercentageLoadTotal ==
    /\ pl.builder.pc = "134"
    /\ pl' = IF pl.total_bytes = 0
             THEN [pl EXCEPT !.builder =
                      percentage_returns([@ EXCEPT !.total = 0], Some(Ratio(100, 1)))]
             ELSE [pl EXCEPT !.builder.total = pl.total_bytes, !.builder.pc = "138"]
    /\ UNCHANGED PayloadFrame

\* percentage(): let written = self.bytes_written.load(..); the quotient
PercentageLoadWritten ==
    /\ pl.builder.pc = "138"
    /\ LET q == Ratio(pl.bytes_written, pl.builder.total)
       IN  pl' = [pl EXCEPT !.builder =
                     percentage_returns([@ EXCEPT !.written = pl.bytes_written],
                                        Some(Ratio(q.num * 100, q.den)))]
    /\ UNCHANGED PayloadFrame

\* total_bytes: if total_known { Some(self.total_bytes.load(..)) } else { None };
\* then the call of eta_seconds(), which starts with percentage()
BuildTotalBytes ==
    /\ pl.builder.pc = "190"
    /\ pl' = [pl EXCEPT !.builder.payload.total_bytes =
                            IF pl.builder.total_known THEN Some(pl.total_bytes) ELSE None,
                        !.builder.ret = "195",
                        !.builder.pc = "131"]
    /\ UNCHANGED PayloadFrame

\* total_files: if total_known { Some(self.total_files.load(..)) } else { None }
BuildTotalFiles ==
    /\ pl.builder.pc = "198"
    /\ pl' = [pl EXCEPT !.builder.payload.total_files =
                            IF pl.builder.total_known THEN Some(pl.total_files) ELSE None,
                        !.builder.pc = "done"]
    /\ UNCHANGED PayloadFrame

PayloadNext ==
    \/ SetTotalStoreBytes
    \/ SetTotalStoreFiles
    \/ SetTotalStoreKnown
    \/ BuildLoadKnown
    \/ BuildLoadCounters
    \/ PercentageLoadKnown
    \/ PercentageLoadTotal
    \/ PercentageLoadWritten
    \/ BuildTotalBytes
    \/ BuildTotalFiles

SpecPayload == PayloadInit /\ [][PayloadNext]_vars

\* C30: every payload build_payload returns is consistent even when
\* set_total runs on another thread: its percentage is None exactly when
\* its total_bytes and its total_files are None, a percentage that is
\* present is the one computed from the payload's total_bytes, and it is
\* never the 100% of a total of 0 that no set_total call has stored.
C30_PayloadConsistent ==
    pl.builder.pc = "done" =>
        LET payload == pl.builder.payload
        IN  /\ ~payload.percentage.some <=>
                  (~payload.total_bytes.some /\ ~payload.total_files.some)
            /\ payload.percentage.some =>
                  /\ payload.total_bytes.some
                  /\ payload.percentage =
                        IF payload.total_bytes.v = 0 THEN Some(Ratio(100, 1))
                        ELSE LET q == Ratio(pl.builder.written, payload.total_bytes.v)
                             IN  Some(Ratio(q.num * 100, q.den))
                  /\ payload.total_bytes.v = 0 => pl.setter.zero_set

\* build_payload read total_known before set_total stored it and
\* percentage() read it afterwards: a percentage with no totals
C30_PercentageWithoutTotal ==
    /\ pl.builder.pc = "done"
    /\ pl.builder.payload.percentage.some
    /\ ~pl.builder.payload.total_bytes.some
    /\ ~pl.builder.payload.total_files.some

----------------------------------------------------------------------------
(* The operation registry and the operations with progress: commands.rs,   *)
(* archive.rs, progress.rs. Operation threads and one thread that calls    *)
(* cancel_operation share the registry; every step makes at most one       *)
(* access to shared state (the registry mutex, a tracker's flag).          *)
(* SpecOperation follows one operation, with I/O that may fail and a clock *)
(* that may advance, against cancel_operation; SpecRegistry follows two    *)
(* concurrent operations against cancel_operation.                         *)

MaxTicks == 1
MaxCancels == 1
WalkEntries == 2

Threads == {"t1", "t2"}

\* the identifier a caller supplies, and the one Uuid::new_v4 gives a thread
SuppliedId == "x"
uuid(t) == IF t = "t1" THEN "uuid-1" ELSE "uuid-2"
Ids == {SuppliedId} \cup {uuid(t) : t \in Threads}

\* the order of the phases of one operation
PhaseRank(phase) ==
    CASE phase = "Scanning" -> 1
      [] phase \in {"Compressing", "Extracting"} -> 2
      [] phase = "Finalizing" -> 3
      [] phase = "Complete" -> 4

\* a command that was invoked and has not run yet, with its arguments, and
\* whether its files, its key and the network may fail it
invoked(fn, op_id, source, faulty) ==
    [fn |-> fn, op_id |-> op_id, source |-> source, faulty |-> faulty, pc |-> "start",
     tracker |-> [made |-> FALSE, cancelled |-> FALSE, last_emit |-> 0, clock |-> 0],
     events |-> <<>>, archive_result |-> "none", archive |-> "none", tlock |-> "none",
     entries |-> 0, outcome |-> "none",
     todo |-> "none", then |-> [pc |-> "none", outcome |-> "none"],
     inserted |-> FALSE, forced |-> FALSE]

Invocations(faulty) ==
    {invoked("lock", i, s, faulty) : i \in {"supplied", "uuid"}, s \in {"file", "dir"}}
        \cup {invoked("unlock", i, "file", faulty) : i \in {"supplied", "uuid"}}

\* no command was invoked on this thread
NotInvoked == [invoked("lock", "uuid", "file", FALSE) EXCEPT !.pc = "absent"]

\* the registry with the commands c invoked on the threads
registry_with(c) ==
    [made |-> TRUE, holder |-> "none", map |-> [i \in Ids |-> "none"],
     clock |-> FirstInstant, ticks |-> 0,
     th |-> [t \in Threads |->
                [c[t] EXCEPT !.op_id = IF @ = "supplied" THEN SuppliedId ELSE uuid(t)]],
     canceller |-> [pc |-> "idle", id |-> "none", calls |-> 0],
     last_cancel |-> [id |-> "none"]]

\* the results the environment may give a step of the operation
IoResults(h) == IF h.faulty THEN BOOLEAN ELSE {TRUE}
Among(h, results) == IF h.faulty THEN results ELSE {"ok"}

OperationInit ==
    /\ overflow_checks = FALSE
    /\ ClockIdle
    /\ HeaderIdle
    /\ CipherIdle
    /\ ContainerIdle
    /\ pt = NoTracker
    /\ PayloadIdle
    /\ \E c \in Invocations(TRUE) :
          ox = registry_with([t \in Threads |-> IF t = "t1" THEN c ELSE NotInvoked])

emit_progress_throttled(h, phase) ==
    LET r == should_emit(h.tracker)
    IN  IF r.v THEN [h EXCEPT !.tracker = r.p, !.events = Append(@, phase)] ELSE h

\* ProgressEmitter::emit_progress_forced: the payload goes to window.emit
emit_progress_forced(h, phase) == [h EXCEPT !.events = Append(@, phase)]

\* ProgressEmitter::emit_progress
emit_progress(h, phase) ==
    LET r == should_emit(h.tracker)
    IN  IF ~r.v THEN h ELSE emit_progress_forced([h EXCEPT !.tracker = r.p], phase)

\* ProgressEmitter::emit_complete
emit_complete(h) ==
    [h EXCEPT !.tracker = force_next_emit(@), !.forced = TRUE,
              !.events = Append(@, "Complete")]

release_kept(o) == o

\* the MutexGuard of active_operations goes out of scope
release(o) == [o EXCEPT !.holder = "none"]

\* the thread goes on to take the registry mutex, to do `todo` under it and
\* then to continue at `pc`, or to return `outcome`
lock_registry(h, todo, pc, outcome) ==
    [h EXCEPT !.pc = "lock_mutex", !.todo = todo,
              !.then = [pc |-> pc, outcome |-> outcome]]

\* the command returns
returns(h, outcome) == [h EXCEPT !.pc = "done", !.outcome = outcome]

\* the monotonic clock advances by the throttle interval
IntervalPasses ==
    /\ ox.ticks < MaxTicks
    /\ ox' = [ox EXCEPT !.ticks = @ + 1,
                        !.clock = @ + THROTTLE_MS,
                        !.th = [t \in Threads |->
                                   IF ox.th[t].tracker.made
                                   THEN [ox.th[t] EXCEPT !.tracker.clock = @ + THROTTLE_MS]
                                   ELSE ox.th[t]]]
    /\ UNCHANGED OperationFrame

\* lock_item_with_progress and unlock_item_with_progress up to the
\* registration: the checks of the arguments, then ProgressTracker::new
StartOperation(t) ==
    /\ ox.th[t].pc = "start"
    /\ \E valid \in IoResults(ox.th[t]) :
          ox' = [ox EXCEPT !.th[t] =
                    IF ~valid THEN returns(@, "error")
                    ELSE lock_registry(
                             [@ EXCEPT !.tracker = [made |-> TRUE, cancelled |-> FALSE,
                                                    last_emit |-> ox.clock,
                                                    clock |-> ox.clock]],
                             "insert", IF @.fn = "lock" THEN "scan" ELSE "read_key", "none")]
    /\ UNCHANGED OperationFrame

\* state.active_operations.lock().unwrap()
Acquire(t) ==
    /\ ox.th[t].pc = "lock_mutex"
    /\ ox.holder = "none"
    /\ ox' = [ox EXCEPT !.holder = t, !.th[t].pc = "holding"]
    /\ UNCHANGED OperationFrame

\* ops.insert(op_id, tracker) or ops.remove(&op_id) under the mutex, then
\* the guard is dropped
Critical(t) ==
    /\ ox.th[t].pc = "holding"
    /\ LET h == ox.th[t]
           o == [ox EXCEPT !.map[h.op_id] = IF h.todo = "insert" THEN t ELSE "none",
                           !.th[t] = [h EXCEPT !.pc = IF h.then.outcome = "none"
                                                      THEN h.then.pc ELSE "done",
                                               !.outcome = h.then.outcome,
                                               !.inserted = @ \/ h.todo = "insert",
                                               !.todo = "none"]]
       IN  ox' = release(o)
    /\ UNCHANGED OperationFrame

\* create_encrypted_archive_with_progress: the Scanning event and
\* calculate_total_size
Scan(t) ==
    /\ ox.th[t].pc = "scan"
    /\ \E ok \in IoResults(ox.th[t]) :
          ox' = [ox EXCEPT !.th[t] =
                    LET h == emit_progress_forced(@, "Scanning")
                    IN  IF ok THEN [h EXCEPT !.pc = "check_cancel"]
                        ELSE [h EXCEPT !.archive_result = "err", !.pc = "after_archive"]]
    /\ UNCHANGED OperationFrame

\* the cancellation check before the archive is created, the Compressing
\* event and ArchiveWriter::create
CheckCancel(t) ==
    /\ ox.th[t].pc = "check_cancel"
    /\ \E ok \in IoResults(ox.th[t]) :
          ox' = [ox EXCEPT !.th[t] =
                    IF is_cancelled(@.tracker)
                    THEN [@ EXCEPT !.archive_result = "cancelled", !.pc = "after_archive"]
                    ELSE LET h == emit_progress_forced(@, "Compressing")
                         IN  IF ok
                             THEN [h EXCEPT !.archive = "partial", !.pc = "add",
                                            !.entries = IF h.source = "file" THEN 1
                                                        ELSE WalkEntries]
                             ELSE [h EXCEPT !.archive_result = "err",
                                            !.pc = "after_archive"]]
    /\ UNCHANGED OperationFrame

\* add_file_to_archive: an event if the throttle allows, the file goes into
\* the archive, another event if the throttle allows
add_file_to_archive(h, ok) ==
    LET h1 == emit_progress(h, "Compressing")
    IN  IF ok THEN emit_progress(h1, "Compressing")
        ELSE [h1 EXCEPT !.archive_result = "err", !.pc = "after_archive"]

\* one entry goes into the archive: the single file, or the next entry of
\* the directory walk behind its cancellation check. The first entry of a
\* walk is the directory itself, for which nothing is written
AddEntry(t) ==
    /\ ox.th[t].pc = "add"
    /\ \E ok \in IoResults(ox.th[t]) :
          ox' = [ox EXCEPT !.th[t] =
                    IF @.source = "dir" /\ is_cancelled(@.tracker)
                    THEN [@ EXCEPT !.archive = "none", !.archive_result = "cancelled",
                                   !.pc = "after_archive"]
                    ELSE LET h == IF @.source = "dir" /\ @.entries = WalkEntries
                                  THEN @ ELSE add_file_to_archive(@, ok)
                         IN  IF h.pc # "add" THEN h
                             ELSE [h EXCEPT !.entries = @ - 1,
                                            !.pc = IF h.entries = 1 THEN "finalize"
                                                   ELSE "add"]]
    /\ UNCHANGED OperationFrame

\* the Finalizing event, writer.finish() and emit_complete
Finalize(t) ==
    /\ ox.th[t].pc = "finalize"
    /\ \E ok \in IoResults(ox.th[t]) :
          ox' = [ox EXCEPT !.th[t] =
                    LET h == emit_progress_forced(@, "Finalizing")
                    IN  IF ok
                        THEN [emit_complete([h EXCEPT !.archive = "complete"])
                                 EXCEPT !.archive_result = "ok", !.pc = "after_archive"]
                        ELSE [h EXCEPT !.archive_result = "err", !.pc = "after_archive"]]
    /\ UNCHANGED OperationFrame

\* lock_item_with_progress after the archive call: the cancellation check,
\* then the error of the archive call
AfterArchive(t) ==
    /\ ox.th[t].pc = "after_archive"
    /\ ox' = [ox EXCEPT !.th[t] =
                 IF is_cancelled(@.tracker) THEN lock_registry(@, "remove", "done", "cancelled")
                 ELSE IF @.archive_result # "ok"
                 THEN lock_registry(@, "remove", "done", "error")
                 ELSE [@ EXCEPT !.pc = "write_container"]]
    /\ UNCHANGED OperationFrame

\* steps 3 to 10 of lock_item_with_progress: encrypt_with_tlock, the
\* metadata, the temporary archive is read, the .7z.tlock file is created
\* and written, the temporary archive is removed. Each `?` returns at once
WriteContainer(t) ==
    /\ ox.th[t].pc = "write_container"
    /\ \E failed \in Among(ox.th[t], {"encrypt", "write", "ok"}) :
          ox' = [ox EXCEPT !.th[t] =
                    CASE failed = "encrypt" -> returns(@, "error")
                      [] failed = "write" -> returns([@ EXCEPT !.tlock = "partial"], "error")
                      [] failed = "ok" ->
                            lock_registry([@ EXCEPT !.tlock = "complete", !.archive = "none"],
                                          "remove", "vault", "none")]
    /\ UNCHANGED OperationFrame

\* steps 11 and 12 of lock_item_with_progress: the move to the vault, the
\* deletion of the original
MoveToVault(t) ==
    /\ ox.th[t].pc = "vault"
    /\ \E ok \in IoResults(ox.th[t]) :
          ox' = [ox EXCEPT !.th[t] = returns(@, IF ok THEN "ok" ELSE "error")]
    /\ UNCHANGED OperationFrame

\* unlock_item_with_progress: the key file is read and parsed, and refused
\* while its time lock is active
ReadKey(t) ==
    /\ ox.th[t].pc = "read_key"
    /\ \E r \in Among(ox.th[t], {"unreadable", "locked", "ok"}) :
          ox' = [ox EXCEPT !.th[t] =
                    CASE r = "unreadable" -> returns(@, "error")
                      [] r = "locked" -> lock_registry(@, "remove", "done", "error")
                      [] r = "ok" -> [@ EXCEPT !.pc = "decrypt"]]
    /\ UNCHANGED OperationFrame

\* unlock_item_with_progress: decrypt_with_tlock fetches the beacon
\* signature; then the archive path of the key file must exist
DecryptPassword(t) ==
    /\ ox.th[t].pc = "decrypt"
    /\ \E r \in Among(ox.th[t], {"undecryptable", "no_archive", "ok"}) :
          ox' = [ox EXCEPT !.th[t] =
                    CASE r = "undecryptable" -> returns(@, "error")
                      [] r = "no_archive" -> lock_registry(@, "remove", "done", "error")
                      [] r = "ok" -> [@ EXCEPT !.pc = "extract"]]
    /\ UNCHANGED OperationFrame

\* extract_encrypted_archive_with_progress up to its cancellation check
ExtractStart(t) ==
    /\ ox.th[t].pc = "extract"
    /\ \E ok \in IoResults(ox.th[t]) :
          ox' = [ox EXCEPT !.th[t] =
                    LET h == emit_progress_forced(@, "Extracting")
                    IN  IF ~ok THEN [h EXCEPT !.archive_result = "err", !.pc = "after_extract"]
                        ELSE IF is_cancelled(h.tracker)
                        THEN [h EXCEPT !.archive_result = "cancelled", !.pc = "after_extract"]
                        ELSE [h EXCEPT !.pc = "decompress"]]
    /\ UNCHANGED OperationFrame

\* the archive is opened and decompressed; emit_complete
Decompress(t) ==
    /\ ox.th[t].pc = "decompress"
    /\ \E ok \in IoResults(ox.th[t]) :
          ox' = [ox EXCEPT !.th[t] =
                    IF ok THEN [emit_complete(@) EXCEPT !.archive_result = "ok",
                                                        !.pc = "after_extract"]
                    ELSE [@ EXCEPT !.archive_result = "err", !.pc = "after_extract"]]
    /\ UNCHANGED OperationFrame

\* unlock_item_with_progress after the extract call: the entry is removed,
\* then the cancellation check, then the result of the extract call
AfterExtract(t) ==
    /\ ox.th[t].pc \in {"after_extract", "check_unlock"}
    /\ ox' = [ox EXCEPT !.th[t] =
                 IF @.pc = "after_extract" THEN lock_registry(@, "remove", "check_unlock", "none")
                 ELSE IF is_cancelled(@.tracker) THEN returns(@, "cancelled")
                 ELSE returns(@, IF @.archive_result = "ok" THEN "ok" ELSE "error")]
    /\ UNCHANGED OperationFrame

\* cancel_operation: state.active_operations.lock().unwrap()
CancelAcquire ==
    /\ ox.canceller.pc = "idle"
    /\ ox.canceller.calls < MaxCancels
    /\ ox.holder = "none"
    /\ \E id \in Ids :
          ox' = [ox EXCEPT !.holder = "canceller",
                           !.canceller = [pc |-> "holding", id |-> id, calls |-> @.calls + 1]]
    /\ UNCHANGED OperationFrame

\* cancel_operation under the mutex: ops.get(&operation_id), tracker.cancel()
\* and the answer; the guard is dropped at the return
CancelLookup ==
    /\ ox.canceller.pc = "holding"
    /\ LET id == ox.canceller.id
           owner == ox.map[id]
           o == [ox EXCEPT !.th = [t \in Threads |->
                                      IF t = owner
                                      THEN [ox.th[t] EXCEPT !.tracker = cancel(@)]
                                      ELSE ox.th[t]],
                           !.canceller.pc = "idle"]
       IN  ox' = [release(o) EXCEPT !.last_cancel =
                     [id |-> id, returned |-> owner # "none", registered |-> ox.map[id] # "none",
                      owner |-> owner,
                      before |-> [t \in Threads |-> ox.th[t].tracker.cancelled],
                      after |-> [t \in Threads |-> o.th[t].tracker.cancelled],
                      running |-> [t \in Threads |->
                                      ox.th[t].inserted /\ ox.th[t].outcome = "none"]]]
    /\ UNCHANGED OperationFrame

OperationNext ==
    \/ IntervalPasses
    \/ CancelAcquire
    \/ CancelLookup
    \/ \E t \in Threads :
          \/ StartOperation(t)
          \/ Acquire(t)
          \/ Critical(t)
          \/ Scan(t)
          \/ CheckCancel(t)
          \/ AddEntry(t)
          \/ Finalize(t)
          \/ AfterArchive(t)
          \/ WriteContainer(t)
          \/ MoveToVault(t)
          \/ ReadKey(t)
          \/ DecryptPassword(t)
          \/ ExtractStart(t)
          \/ Decompress(t)
          \/ AfterExtract(t)

SpecOperation == OperationInit /\ [][OperationNext]_vars

\* two commands run concurrently; the second is a lock of a single file
\* whose I/O succeeds
RegistryInit ==
    /\ overflow_checks = FALSE
    /\ ClockIdle
    /\ HeaderIdle
    /\ CipherIdle
    /\ ContainerIdle
    /\ pt = NoTracker
    /\ PayloadIdle
    /\ \E c \in [Threads -> Invocations(TRUE) \cup Invocations(FALSE)] :
          /\ c["t1"].faulty
          /\ ~c["t2"].faulty
          /\ c["t2"].fn = "lock"
          /\ c["t2"].source = "file"
          /\ ox = registry_with(c)

RegistryNext ==
    \/ CancelAcquire
    \/ CancelLookup
    \/ \E t \in Threads :
          \/ StartOperation(t)
          \/ Acquire(t)
          \/ Critical(t)
          \/ Scan(t)
          \/ CheckCancel(t)
          \/ AddEntry(t)
          \/ Finalize(t)
          \/ AfterArchive(t)
          \/ WriteContainer(t)
          \/ MoveToVault(t)
          \/ ReadKey(t)
          \/ DecryptPassword(t)
          \/ ExtractStart(t)
          \/ Decompress(t)
          \/ AfterExtract(t)

SpecRegistry == RegistryInit /\ [][RegistryNext]_vars

\* the steps at which an operation does archive I/O, container file I/O or
\* a beacon fetch
IOSteps ==
    {"scan", "check_cancel", "add", "finalize", "write_container", "vault",
     "read_key", "decrypt", "extract", "decompress"}

\* does the operation's event stream carry the phase?
Emitted(h, phase) == \E i \in 1 .. Len(h.events) : h.events[i] = phase

C25_PhaseOrder ==
    \A t \in Threads :
        LET h == ox.th[t]
        IN  /\ \A i, j \in 1 .. Len(h.events) :
                  i < j => PhaseRank(h.events[i]) <= PhaseRank(h.events[j])
            /\ Cardinality({i \in 1 .. Len(h.events) : h.events[i] = "Complete"}) <= 1
            /\ Emitted(h, "Complete") => h.archive_result = "ok"
            /\ h.outcome \in {"cancelled", "error"} => ~Emitted(h, "Complete")

\* C26: when lock_item_with_progress ends cancelled, neither the
\* destination container nor a temporary or partial archive of the
\* operation is on disk.
C26_CancelledLeavesNothing ==
    \A t \in Threads :
        (ox.th[t].fn = "lock" /\ ox.th[t].outcome = "cancelled") =>
            /\ ox.th[t].archive = "none"
            /\ ox.th[t].tlock = "none"

\* C27: once an operation with progress has returned, with whatever
\* outcome, the registry holds no entry of that operation.
C27_RegistryHoldsRunningOnly ==
    \A t \in Threads :
        ox.th[t].outcome # "none" => ox.map[ox.th[t].op_id] # t

\* C28: no thread holds the registry mutex while it does archive I/O,
\* container file I/O or a beacon fetch: the holder's next step is the
\* insert, the remove or the lookup with the flag store, which ends with the
\* release.
C28_MutexNotHeldDuringIO ==
    /\ \A t \in Threads :
          ox.holder = t => (ox.th[t].pc \notin IOSteps /\ ox.th[t].pc = "holding")
    /\ ox.holder = "canceller" => ox.canceller.pc = "holding"

\* one operation holds the mutex for its insert while the other is
\* writing its archive
C28_Witness ==
    /\ ox.holder = "t2"
    /\ ox.th["t2"].todo = "insert"
    /\ ox.th["t1"].pc = "add"

\* cancel_operation holds the mutex while an operation decompresses
C28_CancelWitness ==
    /\ ox.holder = "canceller"
    /\ ox.th["t1"].pc = "decompress"

\* C29: cancel_operation(id) returns true exactly when id is registered,
\* sets the flag of that one tracker and leaves the others alone; and it
\* sets the flag of every operation still running that was started with
\* id, also when two were started with the same identifier.
C29_CancelReachesOwnTracker ==
    ox.last_cancel.id # "none" =>
        LET c == ox.last_cancel
        IN  /\ c.returned = c.registered
            /\ c.registered => c.after[c.owner]
            /\ \A t \in Threads : t # c.owner => c.after[t] = c.before[t]
            /\ \A t \in Threads :
                  (c.running[t] /\ ox.th[t].op_id = c.id) => c.after[t]

\* cancel_operation stored the flag after the last check of the archive
\* step: the lock ends cancelled with Complete emitted
C25_CompleteThenCancelled ==
    /\ ox.th["t1"].fn = "lock"
    /\ ox.th["t1"].outcome = "cancelled"
    /\ Emitted(ox.th["t1"], "Complete")

\* the lock of a single file ends cancelled and its finished temporary
\* archive stays on disk
C26_ArchiveLeft ==
    /\ ox.th["t1"].fn = "lock"
    /\ ox.th["t1"].source = "file"
    /\ ox.th["t1"].outcome = "cancelled"
    /\ ox.th["t1"].archive = "complete"

\* an unlock whose key file did not parse has returned and its tracker is
\* still registered
C27_EntryLeaked ==
    /\ ox.th["t1"].fn = "unlock"
    /\ ox.th["t1"].outcome = "error"
    /\ ox.th["t1"].events = <<>>
    /\ ox.map[ox.th["t1"].op_id] = "t1"

\* two running operations were started with the same identifier and
\* cancel_operation with it has left the first one's flag unset
C29_FirstUncancellable ==
    /\ ox.last_cancel.id = SuppliedId
    /\ \A t \in Threads : ox.th[t].op_id = SuppliedId /\ ox.last_cancel.running[t]
    /\ ox.last_cancel.returned
    /\ \E t \in Threads : ~ox.last_cancel.after[t]

----------------------------------------------------------------------------
(* Claims about refused unlocks, checked under Spec.                       *)

\* C19: every unlock that is refused because the time lock is still active,
\* by the metadata's unlock instant or by the round not being available yet,
\* returns an outcome that reports the remaining time.
C19_RefusalReportsRemaining ==
    (un.pc = "done" /\ un.result = Err("TimeLockActive", "")) =>
        un.reported_remaining

\* the unlock instant of an honest container has passed, its round is not
\* yet available, and the unlock ends in the bare TimeLockActive
C19_BareRefusal ==
    /\ ct.kind = "locked"
    /\ un.pc = "done"
    /\ un.parsed
    /\ Lt(un.at_check, round_to_timestamp(un.round))
    /\ un.result = Err("TimeLockActive", "")
    /\ ~un.reported_remaining

====
